---------------------------- MODULE Spec2Model ----------------------------
(***************************************************************************)
(* Model of the LLM_TYBOO retrieval pipeline.                              *)
(*                                                                         *)
(*   Spec     the document ingestion pipeline of src/src/ingest.py:        *)
(*            DuplicateRegistry (in memory and its JSON backing file),     *)
(*            DataIngestor.ingest_directory / _process_file and the bulk   *)
(*            store into the vector index (VectorStore.add_documents).     *)
(*   SpecRAG  the retrieval side: ProductionRAG.query in its two versions  *)
(*            (LLM_TYBOO/src/production_rag.py with the relevance          *)
(*            threshold, src/src/production_rag.py as served by api.py),   *)
(*            VectorStore.search and backend_api.get_rag.                  *)
(*                                                                         *)
(* Abstractions.  A chunk text is a number of Texts.  A file is the        *)
(* sequence of chunk texts its extracted text splits into; the sequence    *)
(* <<Malformed>> stands for bytes the extractor cannot read.  Digests      *)
(* are injective codes of what they digest (SHA-256 without collisions).   *)
(* Timestamps and paths (path = directory + file name) are left out of     *)
(* the records.  Similarity scores are hundredths (0.45 is 45).            *)
(***************************************************************************)
EXTENDS Integers, Sequences, FiniteSets, TLC

\* ------------------------------------------------------------ bounds ----
MaxChunks == 2      \* chunks per file
MaxRuns   == 2      \* ingest_directory runs in one behaviour
MaxEdits  == 1      \* changes made to the directory between runs
MaxFaults == 1      \* failed calls and process crashes in one behaviour

Names     == {"a.txt", "b.txt"}     \* file names the directory may hold
Texts     == {1, 2}                 \* chunk texts
Malformed == 0                      \* marks a file the extractor rejects

VARIABLES
    dir,            \* the scanned directory: file name -> file (chunk texts)
    registry,       \* DuplicateRegistry.registry, in memory
    backing,        \* the registry's backing file (.ingest_registry.json)
    collections,    \* the vector index: collection name -> stored records
    pc,             \* where the ingesting process is
    queue,          \* ingest_directory: files still to process
    cur,            \* _process_file: the locals of the file in hand
    nreg,           \* _process_file: new chunks registered so far
    all_new_chunks, \* ingest_directory: the batch collected so far
    report,         \* ingest_directory: the report being built
    runs, edits, faults,   \* counters that bound the behaviour
    submitted,      \* history: documents handed to add_documents since the last clear
    runSubmitted,   \* history: documents handed to add_documents by this run
    passChunks,     \* history: hashes register_chunk added during this pass
    chunked,        \* history: the files chunked since the last clear, in order
    prev,           \* history: how the previous run ended
    seenEmpty,      \* history: names a run found with empty text since the last clear

    rag_systems,    \* backend_api.rag_systems: collection name -> ProductionRAG
    result,         \* what the last retrieval request returned

    cli,            \* one run of `python ingest.py`: its arguments and position

    procs,          \* ingesting processes that share the backing file: each
                    \* with its own DuplicateRegistry and run locals

    jobs_db,        \* backend_api.jobs_db: job id -> Job
    job_queue,      \* backend_api.job_queue: ids of the jobs put and not yet got
    worker,         \* the job_worker task: where it is suspended
    utcnow,         \* the clock datetime.utcnow() reads
    executed,       \* history: ids of the jobs whose work was carried out

    router          \* model_router: the query in hand, the label route gave
                    \* it, and the verdict of the self-test

ingestVars == <<dir, registry, backing, pc, queue, cur, nreg, all_new_chunks,
                report, runs, edits, faults, submitted, runSubmitted,
                passChunks, chunked, prev, seenEmpty>>
ragVars    == <<rag_systems, result>>
cliVars    == <<cli>>
jobVars    == <<jobs_db, job_queue, worker, utcnow, executed>>
sideVars   == <<procs, jobVars, router>>
nonIngestVars == <<ragVars, cliVars, sideVars>>
nonRagVars == <<ingestVars, cliVars, sideVars>>


\* ------------------------------------------------------- small helpers ---
Range(s) == {s[i] : i \in 1..Len(s)}

SeqsUpTo(S, n) == UNION {[1..k -> S] : k \in 0..n}

RECURSIVE SortedSeq(_)
\* the elements of a finite set of numbers, ascending
SortedSeq(S) ==
    IF S = {} THEN <<>>
    ELSE LET m == CHOOSE x \in S : \A y \in S : x <= y
         IN  <<m>> \o SortedSeq(S \ {m})

RECURSIVE Orders(_)
\* every order in which the files of a set can be listed
Orders(S) ==
    IF S = {} THEN {<<>>}
    ELSE UNION {{<<f>> \o o : o \in Orders(S \ {f})} : f \in S}

\* a file: the chunk texts it splits into, or the malformed marker
Files == SeqsUpTo(Texts, MaxChunks) \cup {<<Malformed>>}

Collection == "knowledge_base"      \* DataIngestor's default collection

\* ------------------------------------------------------ Content Hasher ---
RECURSIVE hash_file(_)
\* digest of a file's bytes: a positional code, injective on Files
hash_file(bytes) ==
    IF bytes = <<>> THEN 1
    ELSE hash_file(SubSeq(bytes, 1, Len(bytes) - 1)) * (Cardinality(Texts) + 2)
         + bytes[Len(bytes)] + 1

\* digest of a chunk text
hash_text(text) == 100 + text

\* -------------------------------------------------- Duplicate Registry ---
\* _load when the backing file does not exist
EmptyRegistry ==
    [files |-> <<>>, chunks |-> {},
     stats |-> [total_ingested |-> 0, total_skipped |-> 0]]

\* the backing file before the first save: _load finds nothing at the path
NoBackingFile ==
    [exists |-> FALSE, files |-> <<>>, chunks |-> <<>>,
     stats |-> [total_ingested |-> 0, total_skipped |-> 0]]

\* mutant of SavedForm: the chunk list of the previous save is written again
SavedFormStaleChunks(reg) ==
    [exists |-> TRUE, files |-> reg.files, chunks |-> backing.chunks,
     stats |-> reg.stats]

\* what _save writes: the chunk set as a JSON list
SavedForm(reg) ==
    [exists |-> TRUE, files |-> reg.files, chunks |-> SortedSeq(reg.chunks),
     stats |-> reg.stats]

\* mutant of Load: the backing file is never read
LoadIgnoresFile(file) == EmptyRegistry

\* a backing file that is not JSON (a torn or overwritten file): json.load
\* raises JSONDecodeError
NotJson == [exists |-> TRUE, text |-> "not json"]

\* a backing file that is JSON of another shape: the object {"other": "value"}
OtherJson == [exists |-> TRUE, json |-> [other |-> "value"]]

\* the file holds the three keys _save writes
IsRegistryFile(file) == {"files", "chunks", "stats"} \subseteq DOMAIN file

\* the dict has the keys the registry's methods subscript
HasShape(reg) == {"files", "chunks", "stats"} \subseteq DOMAIN reg

\* _load raises: the file exists and json.load cannot parse it
load_raises(file) == file.exists /\ "text" \in DOMAIN file

\* _load followed by _ensure_set: the JSON list becomes a set again; JSON of
\* another shape is returned as it is
Load(file) ==
    IF file.exists
    THEN IF IsRegistryFile(file)
         THEN [files |-> file.files, chunks |-> Range(file.chunks),
               stats |-> file.stats]
         ELSE file.json
    ELSE EmptyRegistry

\* mutant of is_file_known: a registered name is known whatever its hash
is_file_known_by_name(reg, filename, bytes) ==
    <<filename \in DOMAIN reg.files, hash_file(bytes)>>

\* mutant of is_file_known: no file is ever reported as known
is_file_known_never(reg, filename, bytes) == <<FALSE, hash_file(bytes)>>

is_file_known(reg, filename, bytes) ==
    LET current_hash == hash_file(bytes)
    IN  IF filename \in DOMAIN reg.files
        THEN IF reg.files[filename].hash = current_hash
             THEN <<TRUE, current_hash>>
             ELSE <<FALSE, current_hash>>
        ELSE <<FALSE, current_hash>>

is_chunk_known(reg, chunk_text) == hash_text(chunk_text) \in reg.chunks

\* mutant of register_file: the entries of the other files are dropped
register_file_alone(reg, filename, file_hash, chunk_count) ==
    [reg EXCEPT !.files =
        (filename :> [hash |-> file_hash, chunk_count |-> chunk_count])]

\* register_file without its trailing _save
register_file(reg, filename, file_hash, chunk_count) ==
    [reg EXCEPT !.files =
        (filename :> [hash |-> file_hash, chunk_count |-> chunk_count]) @@ @]

register_chunk(reg, chunk_text) ==
    [reg EXCEPT !.chunks = @ \cup {hash_text(chunk_text)}]

\* mutant of clear: the chunk set survives
clear_keeps_chunks(reg) == [EmptyRegistry EXCEPT !.chunks = reg.chunks]

\* mutant of clear: the running counters survive
clear_keeps_stats(reg) == [EmptyRegistry EXCEPT !.stats = reg.stats]

\* clear without its trailing _save
clear(reg) == EmptyRegistry

\* update_stats without its trailing _save
update_stats(reg, ingested, skipped) ==
    [reg EXCEPT !.stats.total_ingested = @ + ingested,
                !.stats.total_skipped = @ + skipped]

get_stats(reg) ==
    [total_ingested |-> reg.stats.total_ingested,
     total_skipped  |-> reg.stats.total_skipped,
     known_files    |-> Cardinality(DOMAIN reg.files),
     known_chunks   |-> Cardinality(reg.chunks)]

\* ------------------------------------------------------- Vector Index ---
\* VectorStore.add_documents on the points of one collection: every document
\* becomes a point with a fresh id (uuid4) and the payload text + metadata
add_documents(points, documents) ==
    points \o [k \in 1..Len(documents) |->
                 [id |-> Len(points) + k, text |-> documents[k].text,
                  metadata |-> documents[k].metadata]]

\* ------------------------------------------------- Ingestion Pipeline ---
\* _process_file, level 2: the chunks of raw_chunks the registry does not know
NewChunks(reg, filename, file_hash, raw_chunks) ==
    LET idx == SelectSeq([i \in 1..Len(raw_chunks) |-> i],
                         LAMBDA i : ~is_chunk_known(reg, raw_chunks[i]))
    IN  [k \in 1..Len(idx) |->
            [text |-> raw_chunks[idx[k]],
             metadata |-> [source |-> filename, chunk_index |-> idx[k] - 1,
                           file_hash |-> file_hash]]]

\* mutant of SkippedChunks: a known text is counted once however often the
\* file holds it
SkippedChunksOnce(reg, raw_chunks) ==
    Cardinality({t \in Range(raw_chunks) : is_chunk_known(reg, t)})

\* _process_file, level 2: how many chunks of raw_chunks the registry knows
SkippedChunks(reg, raw_chunks) ==
    Cardinality({i \in 1..Len(raw_chunks) : is_chunk_known(reg, raw_chunks[i])})

NoFile == [file |-> "", known |-> FALSE, file_hash |-> 0, new_chunks |-> <<>>,
           total |-> 0, skipped |-> 0, outcome |-> "none", modified |-> FALSE]

NoReport == [status |-> "none", files_found |-> 0, files_processed |-> 0,
             files_skipped |-> 0, chunks_new |-> 0, chunks_skipped |-> 0,
             errors |-> <<>>, registry_stats |-> get_stats(EmptyRegistry),
             outcomes |-> <<>>]

NoPrev == [ok |-> FALSE, known_files |-> 0, known_chunks |-> 0]

Resting == pc \in {"idle", "done", "failed"}

\* no command line in progress
NoCli == [at |-> "none", clear_registry |-> FALSE, stats |-> FALSE,
          dir_exists |-> FALSE, out |-> <<>>]

\* the processes of the concurrent specification
Procs == {"p1", "p2"}

\* a process that has not started
NoProc == [pc |-> "new", registry |-> EmptyRegistry, dir |-> <<>>,
           queue |-> <<>>,
           all_new_chunks |-> <<>>, chunks_skipped |-> 0,
           files |-> {}, chunks |-> {}, overlapped |-> FALSE]

NoProcs == [p \in Procs |-> NoProc]

\* Python's None, and a value that is set
None == <<>>
Some(v) == <<v>>

\* job_worker suspended in job_queue.get(), as startup_event leaves it
NoWorker == [at |-> "waiting", job |-> None, done |-> 0]

\* the backend API after startup: no job submitted
NoJobs ==
    /\ jobs_db = <<>>
    /\ job_queue = <<>>
    /\ worker = NoWorker
    /\ utcnow = 1
    /\ executed = {}

\* nothing routed
NoRoute == [text |-> <<>>, label |-> "none", expected |-> "none",
            test |-> "none"]

\* no retrieval request answered yet
NoResult == [kind |-> "none", answer |-> "none", has_sources |-> FALSE,
             sources |-> <<>>, has_flag |-> FALSE, used_knowledge_base |-> FALSE,
             context |-> <<>>, candidates |-> <<>>, accepted |-> <<>>,
             args |-> [top_k |-> 0, include_sources |-> FALSE,
                       relevance_threshold |-> 0]]


runLocals == <<queue, cur, nreg, all_new_chunks, report>>
counters  == <<runs, edits, faults>>
history   == <<submitted, runSubmitted, passChunks, chunked, prev, seenEmpty>>

\* ingest_directory up to its loop: glob the directory, start the report
StartRun ==
    /\ Resting
    /\ runs < MaxRuns
    /\ runs' = runs + 1
    /\ \E files \in Orders(DOMAIN dir) :
          /\ queue' = files
          /\ IF files = <<>>
             THEN /\ report' = [NoReport EXCEPT !.status = "empty"]
                  /\ pc' = "done"
             ELSE /\ report' = [NoReport EXCEPT !.status = "running",
                                                !.files_found = Len(files)]
                  /\ pc' = "loop"
    /\ cur' = NoFile
    /\ nreg' = 0
    /\ all_new_chunks' = <<>>
    /\ runSubmitted' = <<>>
    /\ passChunks' = {}
    /\ prev' = [ok |-> pc = "done" /\ report.status = "complete"
                        /\ report.errors = <<>>,
                known_files  |-> get_stats(registry).known_files,
                known_chunks |-> get_stats(registry).known_chunks]
    /\ UNCHANGED <<dir, registry, backing, collections, edits, faults,
                   submitted, chunked, seenEmpty>>
    /\ UNCHANGED nonIngestVars

\* mutant of CountSkipped: the file is counted as processed
CountSkippedAsProcessed(rep, filename) ==
    [rep EXCEPT !.files_processed = @ + 1,
                !.outcomes = (filename :> "processed") @@ @]

\* the loop body's bookkeeping for a file _process_file returned ([], 0, 0) for
CountSkipped(rep, filename) ==
    [rep EXCEPT !.files_skipped = @ + 1,
                !.outcomes = (filename :> "skipped") @@ @]

\* mutant of CountProcessed: the new chunks are not counted
CountProcessedNoNew(rep, filename, n_new, skipped) ==
    [rep EXCEPT !.files_processed = @ + 1,
                !.chunks_skipped = @ + skipped,
                !.outcomes = (filename :> "processed") @@ @]

\* the loop body's bookkeeping for a file that was chunked
CountProcessed(rep, filename, n_new, skipped) ==
    [rep EXCEPT !.files_processed = @ + 1,
                !.chunks_new = @ + n_new,
                !.chunks_skipped = @ + skipped,
                !.outcomes = (filename :> "processed") @@ @]

\* mutant of RecordError: the exception is swallowed, the file counted as skipped
RecordErrorAsSkip(rep, filename, error) ==
    [rep EXCEPT !.files_skipped = @ + 1,
                !.outcomes = (filename :> "skipped") @@ @]

\* the loop body's except clause
RecordError(rep, filename, error) ==
    [rep EXCEPT !.errors = Append(@, [file |-> filename, error |-> error]),
                !.outcomes = (filename :> "error") @@ @]

\* history: a file went through chunking and was counted
Chunked(filename, raw, new, modified) ==
    [file |-> filename, texts |-> Range(raw),
     new |-> {new[k].text : k \in 1..Len(new)}, run |-> runs,
     modified |-> modified, docs |-> new]

\* one pass of the loop body up to the registry writes: _process_file's
\* level 1 check, extraction, chunking and level 2 check, then the report
\* counts of a file that needs no registry write
ProcessFile ==
    /\ pc = "loop"
    /\ queue # <<>>
    /\ LET filename  == Head(queue)
           bytes     == dir[filename]
           known     == is_file_known(registry, filename, bytes)
           raw       == bytes
           new       == NewChunks(registry, filename, known[2], raw)
           skipped   == SkippedChunks(registry, raw)
           locals    == [NoFile EXCEPT !.file = filename, !.known = known[1],
                                       !.file_hash = known[2],
                                       !.modified = filename \in DOMAIN registry.files]
       IN  IF known[1] \/ (Malformed \notin Range(bytes) /\ raw = <<>>)
           THEN \* exact duplicate, or empty file: ([], 0, 0)
                /\ cur' = [locals EXCEPT !.outcome = "skipped"]
                /\ report' = CountSkipped(report, filename)
                /\ queue' = Tail(queue)
                /\ UNCHANGED <<pc, chunked>>
           ELSE IF Malformed \in Range(bytes)
           THEN \* the extractor raises; ingest_directory records the error
                /\ cur' = [locals EXCEPT !.outcome = "error"]
                /\ report' = RecordError(report, filename, "extract")
                /\ queue' = Tail(queue)
                /\ UNCHANGED <<pc, chunked>>
           ELSE IF new = <<>>
           THEN \* every chunk is known: nothing to register
                /\ cur' = [locals EXCEPT !.total = Len(raw), !.skipped = skipped,
                                         !.outcome = "processed"]
                /\ report' = CountProcessed(report, filename, 0, skipped)
                /\ queue' = Tail(queue)
                /\ chunked' = Append(chunked,
                                 Chunked(filename, raw, new, locals.modified))
                /\ UNCHANGED pc
           ELSE /\ cur' = [locals EXCEPT !.new_chunks = new, !.total = Len(raw),
                                         !.skipped = skipped, !.outcome = "pending"]
                /\ pc' = "register_file"
                /\ UNCHANGED <<report, queue, chunked>>
    /\ nreg' = 0
    /\ seenEmpty' = IF dir[Head(queue)] = <<>> THEN seenEmpty \cup {Head(queue)}
                    ELSE seenEmpty
    /\ UNCHANGED <<dir, registry, backing, collections, all_new_chunks, counters,
                   submitted, runSubmitted, passChunks, prev>>
    /\ UNCHANGED nonIngestVars

\* _process_file: register_file, whose _save succeeds
RegisterFile ==
    /\ pc = "register_file"
    /\ registry' = register_file(registry, cur.file, cur.file_hash,
                                 Len(cur.new_chunks))
    /\ backing' = SavedForm(registry')
    /\ pc' = "register_chunks"
    /\ UNCHANGED <<dir, collections, runLocals, counters, history>>
    /\ UNCHANGED nonIngestVars

\* _process_file: register_file, whose _save raises; the except clause of
\* ingest_directory records the error and the loop goes on
RegisterFileSaveFails ==
    /\ pc = "register_file"
    /\ faults < MaxFaults
    /\ faults' = faults + 1
    /\ registry' = register_file(registry, cur.file, cur.file_hash,
                                 Len(cur.new_chunks))
    /\ cur' = [cur EXCEPT !.outcome = "error"]
    /\ report' = RecordError(report, cur.file, "save")
    /\ queue' = Tail(queue)
    /\ pc' = "loop"
    /\ UNCHANGED <<dir, backing, collections, nreg, all_new_chunks, runs, edits,
                   history>>
    /\ UNCHANGED nonIngestVars

\* _process_file: one register_chunk; after the last one _process_file
\* returns and ingest_directory adds the file to the batch and the report
RegisterChunk ==
    /\ pc = "register_chunks"
    /\ nreg < Len(cur.new_chunks)
    /\ registry' = register_chunk(registry, cur.new_chunks[nreg + 1].text)
    /\ passChunks' = passChunks \cup {hash_text(cur.new_chunks[nreg + 1].text)}
    /\ nreg' = nreg + 1
    /\ IF nreg' = Len(cur.new_chunks)
       THEN /\ all_new_chunks' = all_new_chunks \o cur.new_chunks
            /\ report' = CountProcessed(report, cur.file, Len(cur.new_chunks),
                                        cur.skipped)
            /\ cur' = [cur EXCEPT !.outcome = "processed"]
            /\ queue' = Tail(queue)
            /\ chunked' = Append(chunked,
                             Chunked(cur.file, dir[cur.file], cur.new_chunks,
                                     cur.modified))
            /\ pc' = "loop"
       ELSE UNCHANGED <<all_new_chunks, report, cur, queue, chunked, pc>>
    /\ UNCHANGED <<dir, backing, collections, counters, submitted, runSubmitted,
                   prev, seenEmpty>>
    /\ UNCHANGED nonIngestVars


\* the locals of a run that is over are gone
ForgetRun ==
    /\ queue' = <<>>
    /\ cur' = NoFile
    /\ nreg' = 0
    /\ all_new_chunks' = <<>>
    /\ report' = NoReport
    /\ runSubmitted' = <<>>
    /\ passChunks' = {}

\* ingest_directory after the loop: the single bulk store, which succeeds
\* (or is not needed: no new chunk)
BulkStore ==
    /\ pc = "loop"
    /\ queue = <<>>
    /\ IF all_new_chunks # <<>>
       THEN /\ collections' = [collections EXCEPT ![Collection] =
                                  add_documents(@, all_new_chunks)]
            /\ submitted' = submitted \o all_new_chunks
            /\ runSubmitted' = runSubmitted \o all_new_chunks
       ELSE UNCHANGED <<collections, submitted, runSubmitted>>
    /\ pc' = "stats"
    /\ UNCHANGED <<dir, registry, backing, runLocals, counters, passChunks,
                   chunked, prev, seenEmpty>>
    /\ UNCHANGED nonIngestVars

\* the bulk store raises (embedding service or Qdrant unreachable): nothing
\* is stored and the exception leaves ingest_directory
BulkStoreFails ==
    /\ pc = "loop"
    /\ queue = <<>>
    /\ all_new_chunks # <<>>
    /\ faults < MaxFaults
    /\ faults' = faults + 1
    /\ submitted' = submitted \o all_new_chunks
    /\ runSubmitted' = runSubmitted \o all_new_chunks
    /\ report' = [report EXCEPT !.status = "raised"]
    /\ pc' = "failed"
    /\ UNCHANGED <<dir, registry, backing, collections, queue, cur, nreg,
                   all_new_chunks, runs, edits, passChunks, chunked, prev,
                   seenEmpty>>
    /\ UNCHANGED nonIngestVars

\* the statistics of the run, as ingest_directory passes them to update_stats
StatsUpdate(reg) ==
    IF all_new_chunks # <<>>
    THEN update_stats(reg, Len(all_new_chunks), 0)
    ELSE update_stats(reg, 0, report.chunks_skipped)

\* ingest_directory: update_stats (with its _save), get_stats, return
UpdateStats ==
    /\ pc = "stats"
    /\ registry' = StatsUpdate(registry)
    /\ backing' = SavedForm(registry')
    /\ report' = [report EXCEPT !.status = "complete",
                                !.registry_stats = get_stats(registry')]
    /\ pc' = "done"
    /\ UNCHANGED <<dir, collections, queue, cur, nreg, all_new_chunks, counters,
                   history>>
    /\ UNCHANGED nonIngestVars

\* update_stats raises in _save: the exception leaves ingest_directory
UpdateStatsSaveFails ==
    /\ pc = "stats"
    /\ faults < MaxFaults
    /\ faults' = faults + 1
    /\ registry' = StatsUpdate(registry)
    /\ report' = [report EXCEPT !.status = "raised"]
    /\ pc' = "failed"
    /\ UNCHANGED <<dir, backing, collections, queue, cur, nreg, all_new_chunks,
                   runs, edits, history>>
    /\ UNCHANGED nonIngestVars

\* DuplicateRegistry.clear (python ingest.py --clear-registry)
Clear ==
    /\ Resting
    /\ ~(registry = EmptyRegistry /\ backing = SavedForm(EmptyRegistry))
    /\ registry' = clear(registry)
    /\ backing' = SavedForm(registry')
    /\ pc' = "idle"
    /\ ForgetRun
    /\ submitted' = <<>>
    /\ chunked' = <<>>
    /\ seenEmpty' = {}
    /\ UNCHANGED <<dir, collections, counters, prev>>
    /\ UNCHANGED nonIngestVars

\* a new process: DataIngestor.__init__ builds a DuplicateRegistry, which
\* loads the backing file (every command-line run starts this way)
Restart ==
    /\ Resting
    /\ ~(pc # "failed" /\ registry = Load(backing))
    /\ registry' = Load(backing)
    /\ IF pc = "failed"
       THEN pc' = "idle" /\ ForgetRun
       ELSE UNCHANGED <<pc, runLocals, runSubmitted, passChunks>>
    /\ UNCHANGED <<dir, backing, collections, counters, submitted, chunked, prev,
                   seenEmpty>>
    /\ UNCHANGED nonIngestVars

\* the process dies in the middle of a run; the next one loads the backing file
Crash ==
    /\ ~Resting
    /\ faults < MaxFaults
    /\ faults' = faults + 1
    /\ registry' = Load(backing)
    /\ pc' = "idle"
    /\ ForgetRun
    /\ UNCHANGED <<dir, backing, collections, runs, edits, submitted, chunked,
                   prev, seenEmpty>>
    /\ UNCHANGED nonIngestVars

\* somebody writes, rewrites or removes a file of the directory between two
\* runs (Init already starts from every directory, and a change after the
\* last run is seen by nobody)
EditFile ==
    /\ Resting
    /\ runs >= 1
    /\ runs < MaxRuns
    /\ edits < MaxEdits
    /\ edits' = edits + 1
    /\ \E f \in Names :
          \/ \E bytes \in Files :
                /\ IF f \in DOMAIN dir THEN dir[f] # bytes ELSE TRUE
                /\ dir' = (f :> bytes) @@ dir
          \/ /\ f \in DOMAIN dir
             /\ dir' = [g \in DOMAIN dir \ {f} |-> dir[g]]
    /\ pc' = "idle"
    /\ ForgetRun
    /\ UNCHANGED <<registry, backing, collections, runs, faults, submitted,
                   chunked, prev, seenEmpty>>
    /\ UNCHANGED nonIngestVars

Init ==
    /\ dir \in UNION {[S -> Files] : S \in SUBSET Names}
    /\ registry = EmptyRegistry
    /\ backing = NoBackingFile
    /\ collections = (Collection :> <<>>)
    /\ pc = "idle"
    /\ queue = <<>>
    /\ cur = NoFile
    /\ nreg = 0
    /\ all_new_chunks = <<>>
    /\ report = NoReport
    /\ runs = 0 /\ edits = 0 /\ faults = 0
    /\ submitted = <<>>
    /\ runSubmitted = <<>>
    /\ passChunks = {}
    /\ chunked = <<>>
    /\ prev = NoPrev
    /\ seenEmpty = {}
    /\ rag_systems = {}
    /\ result = NoResult
    /\ cli = NoCli
    /\ procs = NoProcs
    /\ NoJobs
    /\ router = NoRoute

Next ==
    \/ StartRun
    \/ ProcessFile
    \/ RegisterFile
    \/ RegisterFileSaveFails
    \/ RegisterChunk
    \/ BulkStore
    \/ BulkStoreFails
    \/ UpdateStats
    \/ UpdateStatsSaveFails
    \/ Clear
    \/ Restart
    \/ Crash
    \/ EditFile

vars == <<ingestVars, collections, ragVars, cliVars, sideVars>>

Spec == Init /\ [][Next]_vars


\* =============================== retrieval ==============================
MaxPoints == 3      \* points in the vector index, all collections together

RELEVANCE_THRESHOLD == 45

CollNames  == {"enterprise_kb", "default"}   \* api.py's collection, backend default
Questions  == {"q1", "q2"}
RagTexts   == {1, 2, 3}
Thresholds == {30, RELEVANCE_THRESHOLD, 90}

\* cosine similarity of the question's and the text's embeddings, in
\* hundredths (the embedding service is an external collaborator)
Similarity(question, text) ==
    IF question = "q1" THEN <<83, 52, 30>>[text] ELSE <<10, 5, 45>>[text]

RECURSIVE Ranked(_, _)
\* the limit best hits, best first (equal scores: in the order stored)
Ranked(hits, limit) ==
    IF limit = 0 \/ hits = {} THEN <<>>
    ELSE LET best == CHOOSE h \in hits :
                        \A g \in hits : \/ h.score > g.score
                                        \/ h.score = g.score /\ h.id <= g.id
         IN  <<best>> \o Ranked(hits \ {best}, limit - 1)

\* VectorStore.search on the points of one collection
search(points, question, top_k) ==
    Ranked({[id |-> p.id, text |-> p.text, metadata |-> p.metadata,
             score |-> Similarity(question, p.text)] : p \in Range(points)},
           top_k)

\* the source dicts a query returns
Sources(hits) ==
    [k \in 1..Len(hits) |->
        [text |-> hits[k].text, metadata |-> hits[k].metadata,
         relevance_score |-> hits[k].score]]

\* mutant of Relevant: a score equal to the threshold is dropped
RelevantStrict(candidates, relevance_threshold) ==
    SelectSeq(candidates, LAMBDA r : r.score > relevance_threshold)

\* ProductionRAG.query, step 2: the relevance filter
Relevant(candidates, relevance_threshold) ==
    SelectSeq(candidates, LAMBDA r : r.score >= relevance_threshold)

\* ProductionRAG.query of LLM_TYBOO/src/production_rag.py.  A key the
\* returned dict lacks is has_... = FALSE; context is what the prompt shows
\* the generator, answer says who worded the answer
query(points, question, top_k, include_sources, relevance_threshold) ==
    LET candidates == search(points, question, top_k)
        relevant   == Relevant(candidates, relevance_threshold)
    IN  [kind |-> "query", answer |-> "generated",
         has_sources |-> include_sources,
         sources |-> IF include_sources THEN Sources(relevant) ELSE <<>>,
         has_flag |-> include_sources,
         used_knowledge_base |-> include_sources /\ Len(relevant) > 0,
         context |-> relevant, candidates |-> candidates,
         accepted |-> relevant,
         args |-> [top_k |-> top_k, include_sources |-> include_sources,
                   relevance_threshold |-> relevance_threshold]]

\* ProductionRAG.query of src/src/production_rag.py, the one api.py and
\* backend_api.py import: no relevance filter, a canned answer on no result
query_unfiltered(kind, points, question, top_k, include_sources) ==
    LET results == search(points, question, top_k)
    IN  IF results = <<>>
        THEN [kind |-> kind, answer |-> "canned",
              has_sources |-> TRUE, sources |-> <<>>,
              has_flag |-> FALSE, used_knowledge_base |-> FALSE,
              context |-> <<>>, candidates |-> results, accepted |-> results,
              args |-> [top_k |-> top_k, include_sources |-> include_sources,
                        relevance_threshold |-> RELEVANCE_THRESHOLD]]
        ELSE [kind |-> kind, answer |-> "generated",
              has_sources |-> include_sources,
              sources |-> IF include_sources THEN Sources(results) ELSE <<>>,
              has_flag |-> FALSE, used_knowledge_base |-> FALSE,
              context |-> results, candidates |-> results, accepted |-> results,
              args |-> [top_k |-> top_k, include_sources |-> include_sources,
                        relevance_threshold |-> RELEVANCE_THRESHOLD]]

\* mutant of initialize_collection: the collection is created anew each time
initialize_collection_anew(colls, name) == (name :> <<>>) @@ colls

\* VectorStore._initialize_collection, run by every ProductionRAG constructor
initialize_collection(colls, name) ==
    IF name \notin DOMAIN colls THEN (name :> <<>>) @@ colls ELSE colls

\* backend_api.get_rag: the collections after the lookup (a ProductionRAG is
\* built, and with it a VectorStore, when the name is not cached yet)
get_rag(colls, cached, collection) ==
    IF collection \notin cached THEN initialize_collection(colls, collection)
    ELSE colls

PointCount == LET Count[S \in SUBSET DOMAIN collections] ==
                      IF S = {} THEN 0
                      ELSE LET c == CHOOSE x \in S : TRUE
                           IN  Len(collections[c]) + Count[S \ {c}]
              IN  Count[DOMAIN collections]

ApiDoc(text) == [text |-> text, metadata |-> [source |-> "api"]]

\* api.py POST /rag/ingest: documents go to the enterprise_kb collection
ingest_documents ==
    /\ result = NoResult
    /\ PointCount < MaxPoints
    /\ \E text \in RagTexts :
          collections' = [collections EXCEPT !["enterprise_kb"] =
                             add_documents(@, <<ApiDoc(text)>>)]
    /\ UNCHANGED <<ragVars, nonRagVars>>

\* api.py POST /rag/query
query_rag ==
    /\ result = NoResult
    /\ \E question \in Questions, top_k \in 1..MaxPoints,
          include_sources \in BOOLEAN :
          result' = query_unfiltered("query_rag", collections["enterprise_kb"],
                                     question, top_k, include_sources)
    /\ UNCHANGED <<collections, rag_systems, nonRagVars>>

\* backend_api.py POST /api/rag/ingest
rag_ingest ==
    /\ result = NoResult
    /\ PointCount < MaxPoints
    /\ \E collection \in CollNames, text \in RagTexts :
          /\ collections' =
                [get_rag(collections, rag_systems, collection)
                    EXCEPT ![collection] = add_documents(@, <<ApiDoc(text)>>)]
          /\ rag_systems' = rag_systems \cup {collection}
    /\ UNCHANGED <<result, nonRagVars>>

\* backend_api.py POST /api/rag/query
rag_query ==
    /\ result = NoResult
    /\ \E collection \in CollNames, question \in Questions,
          top_k \in 1..MaxPoints :
          /\ collections' = get_rag(collections, rag_systems, collection)
          /\ rag_systems' = rag_systems \cup {collection}
          /\ result' = query_unfiltered("rag_query", collections'[collection],
                                        question, top_k, TRUE)
    /\ UNCHANGED nonRagVars

\* ProductionRAG.query of LLM_TYBOO/src/production_rag.py on the instance of
\* an existing collection
Query ==
    /\ result = NoResult
    /\ \E collection \in DOMAIN collections, question \in Questions,
          top_k \in 1..MaxPoints, include_sources \in BOOLEAN,
          relevance_threshold \in Thresholds :
          result' = query(collections[collection], question, top_k,
                          include_sources, relevance_threshold)
    /\ UNCHANGED <<collections, rag_systems, nonRagVars>>

\* the response has gone out to the caller
Respond ==
    /\ result # NoResult
    /\ result' = NoResult
    /\ UNCHANGED <<collections, rag_systems, nonRagVars>>

InitRAG ==
    /\ dir = <<>>
    /\ registry = EmptyRegistry
    /\ backing = NoBackingFile
    /\ collections = ("enterprise_kb" :> <<>>)
    /\ pc = "idle"
    /\ queue = <<>>
    /\ cur = NoFile
    /\ nreg = 0
    /\ all_new_chunks = <<>>
    /\ report = NoReport
    /\ runs = 0 /\ edits = 0 /\ faults = 0
    /\ submitted = <<>>
    /\ runSubmitted = <<>>
    /\ passChunks = {}
    /\ chunked = <<>>
    /\ prev = NoPrev
    /\ seenEmpty = {}
    /\ rag_systems = {}
    /\ result = NoResult
    /\ cli = NoCli
    /\ procs = NoProcs
    /\ NoJobs
    /\ router = NoRoute

NextRAG ==
    \/ ingest_documents
    \/ query_rag
    \/ rag_ingest
    \/ rag_query
    \/ Query
    \/ Respond

SpecRAG == InitRAG /\ [][NextRAG]_vars

\* ========================= the ingest command line ========================
\* the registry a backing file holds after one file was ingested
IngestedOnce(filename, bytes) ==
    [files |-> (filename :> [hash |-> hash_file(bytes),
                             chunk_count |-> Len(bytes)]),
     chunks |-> {hash_text(bytes[i]) : i \in 1..Len(bytes)},
     stats |-> [total_ingested |-> Len(bytes), total_skipped |-> 0]]

\* what the command may find at REGISTRY_PATH when it starts
BackingFiles ==
    {NoBackingFile, NotJson, OtherJson, SavedForm(EmptyRegistry)}
    \cup {SavedForm(IngestedOnce(f, b)) :
             f \in Names, b \in SeqsUpTo(Texts, MaxChunks) \ {<<>>}}

\* main: ingestor = DataIngestor(collection_name=args.collection).  The
\* VectorStore is built first (and creates its collection), then the
\* DuplicateRegistry, whose _load may raise
Construct ==
    /\ cli.at = "start"
    /\ collections' = initialize_collection(collections, Collection)
    /\ IF load_raises(backing)
       THEN /\ cli' = [cli EXCEPT !.at = "raised"]
            /\ UNCHANGED registry
       ELSE /\ registry' = Load(backing)
            /\ cli' = [cli EXCEPT !.at = "constructed"]
    /\ UNCHANGED <<dir, backing, pc, runLocals, counters, history, ragVars, sideVars>>

\* main: if args.clear_registry: ingestor.registry.clear()
MainClearRegistry ==
    /\ cli.at = "constructed"
    /\ IF cli.clear_registry
       THEN /\ registry' = clear(registry)
            /\ backing' = SavedForm(registry')
       ELSE UNCHANGED <<registry, backing>>
    /\ cli' = [cli EXCEPT !.at = "dispatch"]
    /\ UNCHANGED <<dir, collections, pc, runLocals, counters, history, ragVars, sideVars>>

\* main: if args.stats: print(get_stats())
MainStats ==
    /\ cli.at = "dispatch"
    /\ cli.stats
    /\ IF HasShape(registry)
       THEN cli' = [cli EXCEPT !.at = "exit", !.out = <<get_stats(registry)>>]
       ELSE cli' = [cli EXCEPT !.at = "raised"]
    /\ UNCHANGED <<dir, registry, backing, collections, pc, runLocals, counters,
                   history, ragVars, sideVars>>

\* main: elif not os.path.exists(args.dir): os.makedirs(args.dir)
MainMakedirs ==
    /\ cli.at = "dispatch"
    /\ ~cli.stats
    /\ ~cli.dir_exists
    /\ cli' = [cli EXCEPT !.at = "exit", !.dir_exists = TRUE]
    /\ UNCHANGED <<dir, registry, backing, collections, pc, runLocals, counters,
                   history, ragVars, sideVars>>

\* main: else: ingestor.ingest_directory(args.dir) is called
MainIngest ==
    /\ cli.at = "dispatch"
    /\ ~cli.stats
    /\ cli.dir_exists
    /\ cli' = [cli EXCEPT !.at = "ingest"]
    /\ UNCHANGED <<dir, registry, backing, collections, pc, runLocals, counters,
                   history, ragVars, sideVars>>

\* ingest_directory on a registry dict without the registry's keys: with no
\* file it returns early; otherwise is_file_known raises KeyError for every
\* file (recorded in report.errors) and update_stats raises KeyError
IngestMisshapen ==
    /\ cli.at = "ingest"
    /\ pc = "idle"
    /\ ~HasShape(registry)
    /\ runs' = runs + 1
    /\ \E files \in Orders(DOMAIN dir) :
          IF files = <<>>
          THEN /\ report' = [NoReport EXCEPT !.status = "empty"]
               /\ pc' = "done"
          ELSE /\ report' = [NoReport EXCEPT
                    !.status = "raised",
                    !.files_found = Len(files),
                    !.errors = [k \in 1..Len(files) |->
                                   [file |-> files[k], error |-> "KeyError"]],
                    !.outcomes = [f \in DOMAIN dir |-> "error"]]
               /\ pc' = "failed"
    /\ UNCHANGED <<dir, registry, backing, collections, queue, cur, nreg,
                   all_new_chunks, edits, faults, history, ragVars, cliVars,
                   sideVars>>

InitCLI ==
    /\ dir \in UNION {[S -> Files] : S \in SUBSET Names}
    /\ cli \in [at : {"start"}, clear_registry : BOOLEAN, stats : BOOLEAN,
                dir_exists : BOOLEAN, out : {<<>>}]
    /\ cli.dir_exists \/ dir = <<>>
    /\ backing \in BackingFiles
    /\ registry = EmptyRegistry
    /\ collections \in {<<>>, (Collection :> <<>>)}
    /\ pc = "idle"
    /\ queue = <<>>
    /\ cur = NoFile
    /\ nreg = 0
    /\ all_new_chunks = <<>>
    /\ report = NoReport
    /\ runs = 0 /\ edits = 0 /\ faults = 0
    /\ submitted = <<>>
    /\ runSubmitted = <<>>
    /\ passChunks = {}
    /\ chunked = <<>>
    /\ prev = NoPrev
    /\ seenEmpty = {}
    /\ rag_systems = {}
    /\ result = NoResult
    /\ procs = NoProcs
    /\ NoJobs
    /\ router = NoRoute

\* the one ingest_directory call of the command
IngestDirectory ==
    /\ cli.at = "ingest"
    /\ HasShape(registry)
    /\ \/ runs = 0 /\ StartRun
       \/ ProcessFile
       \/ RegisterFile
       \/ RegisterChunk
       \/ BulkStore
       \/ UpdateStats

NextCLI ==
    \/ Construct
    \/ MainClearRegistry
    \/ MainStats
    \/ MainMakedirs
    \/ MainIngest
    \/ IngestMisshapen
    \/ IngestDirectory

SpecCLI == InitCLI /\ [][NextCLI]_vars


\* ------------------------------------------- two ingesting processes ---
\* Two `python ingest.py` processes at once. Each builds its own
\* DuplicateRegistry from the one backing file and runs ingest_directory on a
\* directory of its own; the backing file and the vector index are shared.
\* A step is what a process does between two accesses to the backing file.
Active(p) == procs[p].pc \notin {"new", "done"}

\* _process_file's loop over new_chunks: one register_chunk for each
RECURSIVE RegisterChunks(_, _)
RegisterChunks(reg, new_chunks) ==
    IF new_chunks = <<>> THEN reg
    ELSE RegisterChunks(register_chunk(reg, Head(new_chunks).text),
                        Tail(new_chunks))

\* DataIngestor.__init__: the process loads the backing file
ProcLoad(p) ==
    /\ procs[p].pc = "new"
    /\ procs' = [q \in Procs |->
                   IF q = p
                   THEN [procs[p] EXCEPT
                            !.pc = "idle",
                            !.registry = Load(backing),
                            !.overlapped = \E r \in Procs \ {p} : Active(r)]
                   ELSE IF Active(q)
                   THEN [procs[q] EXCEPT !.overlapped = TRUE]
                   ELSE procs[q]]
    /\ UNCHANGED <<dir, registry, backing, collections, pc, runLocals,
                   counters, history, ragVars, cliVars, jobVars, router>>

\* ingest_directory up to its loop, on the directory the process was given
ProcStartRun(p) ==
    /\ procs[p].pc = "idle"
    /\ \E d \in UNION {[S -> Files] : S \in SUBSET Names} :
       \E files \in Orders(DOMAIN d) :
          procs' = [procs EXCEPT
                       ![p].dir = d,
                       ![p].queue = files,
                       ![p].pc = IF files = <<>> THEN "done" ELSE "loop"]
    /\ UNCHANGED <<dir, registry, backing, collections, pc, runLocals,
                   counters, history, ragVars, cliVars, jobVars, router>>

\* one pass of the loop body: _process_file with register_file's _save and
\* the register_chunk calls, then the batch and the skipped count
ProcProcessFile(p) ==
    /\ procs[p].pc = "loop"
    /\ procs[p].queue # <<>>
    /\ LET reg      == procs[p].registry
           filename == Head(procs[p].queue)
           bytes    == procs[p].dir[filename]
           known    == is_file_known(reg, filename, bytes)
           new      == NewChunks(reg, filename, known[2], bytes)
           skipped  == SkippedChunks(reg, bytes)
           next     == [procs[p] EXCEPT !.queue = Tail(@)]
           reg1     == register_file(reg, filename, known[2], Len(new))
       IN  IF known[1] \/ bytes = <<>> \/ Malformed \in Range(bytes)
           THEN \* ([], 0, 0), or the extractor raises: no registry write
                /\ procs' = [procs EXCEPT ![p] = next]
                /\ UNCHANGED backing
           ELSE IF new = <<>>
           THEN /\ procs' = [procs EXCEPT ![p] =
                               [next EXCEPT !.chunks_skipped = @ + skipped]]
                /\ UNCHANGED backing
           ELSE /\ backing' = SavedForm(reg1)
                /\ procs' = [procs EXCEPT ![p] =
                               [next EXCEPT
                                  !.registry = RegisterChunks(reg1, new),
                                  !.all_new_chunks = @ \o new,
                                  !.chunks_skipped = @ + skipped,
                                  !.files = @ \cup {filename},
                                  !.chunks = @ \cup {hash_text(new[k].text) :
                                                        k \in 1..Len(new)}]]
    /\ UNCHANGED <<dir, registry, collections, pc, runLocals, counters,
                   history, ragVars, cliVars, jobVars, router>>

\* ingest_directory after the loop: the single bulk store
ProcBulkStore(p) ==
    /\ procs[p].pc = "loop"
    /\ procs[p].queue = <<>>
    /\ IF procs[p].all_new_chunks # <<>>
       THEN collections' = [collections EXCEPT ![Collection] =
                               add_documents(@, procs[p].all_new_chunks)]
       ELSE UNCHANGED collections
    /\ procs' = [procs EXCEPT ![p].pc = "stats"]
    /\ UNCHANGED <<dir, registry, backing, pc, runLocals, counters, history,
                   ragVars, cliVars, jobVars, router>>

\* ingest_directory: update_stats with its _save, then the process ends
ProcUpdateStats(p) ==
    /\ procs[p].pc = "stats"
    /\ LET reg == IF procs[p].all_new_chunks # <<>>
                  THEN update_stats(procs[p].registry,
                                    Len(procs[p].all_new_chunks), 0)
                  ELSE update_stats(procs[p].registry, 0,
                                    procs[p].chunks_skipped)
       IN  /\ backing' = SavedForm(reg)
           /\ procs' = [procs EXCEPT ![p].registry = reg, ![p].pc = "done"]
    /\ UNCHANGED <<dir, registry, collections, pc, runLocals, counters,
                   history, ragVars, cliVars, jobVars, router>>

InitTwo ==
    /\ dir = <<>>
    /\ registry = EmptyRegistry
    /\ backing = NoBackingFile
    /\ collections = (Collection :> <<>>)
    /\ pc = "idle"
    /\ queue = <<>>
    /\ cur = NoFile
    /\ nreg = 0
    /\ all_new_chunks = <<>>
    /\ report = NoReport
    /\ runs = 0 /\ edits = 0 /\ faults = 0
    /\ submitted = <<>>
    /\ runSubmitted = <<>>
    /\ passChunks = {}
    /\ chunked = <<>>
    /\ prev = NoPrev
    /\ seenEmpty = {}
    /\ rag_systems = {}
    /\ result = NoResult
    /\ cli = NoCli
    /\ procs = NoProcs
    /\ NoJobs
    /\ router = NoRoute

NextTwo ==
    \E p \in Procs :
       \/ ProcLoad(p)
       \/ ProcStartRun(p)
       \/ ProcProcessFile(p)
       \/ ProcBulkStore(p)
       \/ ProcUpdateStats(p)

SpecTwo == InitTwo /\ [][NextTwo]_vars


\* ------------------------------------------------ the async job queue ---
\* backend_api.py: submit_job and cancel_job are request handlers, job_worker
\* is one task on the same event loop. A step runs from one suspension of a
\* coroutine to the next, as the event loop runs it; a worker that can run
\* (its get() has a job to return) runs before the next request is handled.
MaxJobs     == 3      \* jobs submitted in one behaviour
MaxMessages == 2      \* messages of a batch_chat job

JobTypes   == {"batch_embed", "batch_rag_ingest", "analyze_document",
               "batch_chat", "no_such_type"}
Priorities == {"normal", "high"}

\* Job.__init__
Job(job_id, job_type, params, priority, now) ==
    [job_id |-> job_id, job_type |-> job_type, params |-> params,
     priority |-> priority, status |-> "pending", progress |-> 0,
     result |-> None, error |-> None, created_at |-> now,
     started_at |-> None, completed_at |-> None]

\* process_job: its first two statements
Started(job, now) ==
    [job EXCEPT !.status = "running", !.started_at = Some(now)]

\* mutant of Completed: the progress is left as it is
CompletedKeepsProgress(job, value, now) ==
    [job EXCEPT !.result = Some(value), !.status = "completed",
                !.completed_at = Some(now)]

\* process_job: the end of a branch and of the try block, then finally
Completed(job, value, now) ==
    [job EXCEPT !.result = Some(value), !.status = "completed",
                !.progress = 100, !.completed_at = Some(now)]

\* process_job: the except clause, then finally
Failed(job, error, now) ==
    [job EXCEPT !.status = "failed", !.error = Some(error),
                !.completed_at = Some(now)]

\* job_worker after process_job: task_done, then job_queue.get(), which
\* suspends only when the queue is empty
NextGet(pending) ==
    [at |-> IF pending = <<>> THEN "waiting" ELSE "ready", job |-> None,
     done |-> 0]

\* mutant of put: a job of high priority goes to the front of the queue
put_by_priority(pending, job_id, priority) ==
    IF priority = "high" THEN <<job_id>> \o pending
    ELSE Append(pending, job_id)

\* job_queue.put as submit_job calls it: asyncio.Queue is first in, first
\* out, and the priority of the job is not looked at
put(pending, job_id, priority) == Append(pending, job_id)

\* POST /api/jobs. The job is stored and put on the queue; the put wakes a
\* worker suspended in get(). params holds the number of texts, documents
\* or messages.
submit_job ==
    /\ worker.at # "ready"
    /\ Len(jobs_db) < MaxJobs
    /\ \E job_type \in JobTypes, n \in 0..MaxMessages, priority \in Priorities :
          /\ IF job_type = "batch_chat" THEN TRUE ELSE n = 1
          /\ LET job_id == Len(jobs_db) + 1
             IN  /\ jobs_db' = Append(jobs_db, Job(job_id, job_type, [n |-> n],
                                                   priority, utcnow))
                 /\ job_queue' = put(job_queue, job_id, priority)
    /\ worker' = IF worker.at = "waiting" THEN [worker EXCEPT !.at = "ready"]
                 ELSE worker
    /\ utcnow' = utcnow + 1
    /\ UNCHANGED <<executed, collections, ragVars, ingestVars, cliVars, procs, router>>

\* DELETE /api/jobs/{job_id} for a job that is pending or running (for any
\* other job, known or not, the handler changes nothing)
cancel_job ==
    /\ worker.at # "ready"
    /\ \E job_id \in DOMAIN jobs_db :
          /\ jobs_db[job_id].status \in {"pending", "running"}
          /\ jobs_db' = [jobs_db EXCEPT ![job_id].status = "cancelled"]
    /\ UNCHANGED <<job_queue, worker, utcnow, executed, collections, ragVars,
                   ingestVars, cliVars, procs, router>>

\* job_worker: job_queue.get() returns the oldest job to process_job
Got(job_type) ==
    /\ worker.at = "ready"
    /\ job_queue # <<>>
    /\ jobs_db[Head(job_queue)].job_type = job_type

\* process_job ran from its first statement to its last without suspending
Ran(job) ==
    /\ jobs_db' = [jobs_db EXCEPT ![job.job_id] = job]
    /\ job_queue' = Tail(job_queue)
    /\ worker' = NextGet(job_queue')
    /\ utcnow' = utcnow + 2

\* process_job, batch_embed: embed_batch blocks, and returns or raises
ProcessBatchEmbed ==
    /\ Got("batch_embed")
    /\ LET job == Started(jobs_db[Head(job_queue)], utcnow)
       IN  \E ok \in BOOLEAN :
              IF ok
              THEN Ran(Completed(job, [count |-> job.params.n], utcnow + 1))
              ELSE Ran(Failed(job, "RuntimeError", utcnow + 1))
    /\ executed' = executed \cup {Head(job_queue)}
    /\ UNCHANGED <<collections, ragVars, ingestVars, cliVars, procs, router>>

\* process_job, batch_rag_ingest: get_rag on the default collection, then
\* ingest_documents, which blocks, and returns or raises while embedding
ProcessBatchRagIngest ==
    /\ Got("batch_rag_ingest")
    /\ LET job   == Started(jobs_db[Head(job_queue)], utcnow)
           colls == get_rag(collections, rag_systems, "default")
           docs  == [k \in 1..job.params.n |-> ApiDoc(k)]
       IN  \E ok \in BOOLEAN :
              IF ok
              THEN /\ collections' = [colls EXCEPT !["default"] =
                                         add_documents(@, docs)]
                   /\ Ran(Completed(job, [count |-> Len(docs)], utcnow + 1))
              ELSE /\ collections' = colls
                   /\ Ran(Failed(job, "RuntimeError", utcnow + 1))
    /\ rag_systems' = rag_systems \cup {"default"}
    /\ executed' = executed \cup {Head(job_queue)}
    /\ UNCHANGED <<result, ingestVars, cliVars, procs, router>>

\* process_job, analyze_document: the call passes two arguments to
\* AgentOrchestrator.analyze_document of orchestrator.py, which takes one,
\* so the call raises TypeError before anything is awaited
ProcessAnalyzeDocument ==
    /\ Got("analyze_document")
    /\ Ran(Failed(Started(jobs_db[Head(job_queue)], utcnow), "TypeError",
                  utcnow + 1))
    /\ UNCHANGED <<executed, collections, ragVars, ingestVars, cliVars, procs, router>>

\* process_job, any other job type: ValueError
ProcessUnknown ==
    /\ Got("no_such_type")
    /\ Ran(Failed(Started(jobs_db[Head(job_queue)], utcnow), "ValueError",
                  utcnow + 1))
    /\ UNCHANGED <<executed, collections, ragVars, ingestVars, cliVars, procs, router>>

\* process_job, batch_chat: with no message the loop body never runs;
\* otherwise the worker suspends in the first agent.run
ProcessBatchChat ==
    /\ Got("batch_chat")
    /\ LET job == Started(jobs_db[Head(job_queue)], utcnow)
       IN  IF job.params.n = 0
           THEN /\ Ran(Completed(job, [responses |-> 0], utcnow + 1))
                /\ UNCHANGED executed
           ELSE /\ jobs_db' = [jobs_db EXCEPT ![job.job_id] = job]
                /\ job_queue' = Tail(job_queue)
                /\ worker' = [at |-> "awaiting", job |-> Some(job.job_id),
                              done |-> 0]
                /\ utcnow' = utcnow + 1
                /\ executed' = executed \cup {job.job_id}
    /\ UNCHANGED <<collections, ragVars, ingestVars, cliVars, procs, router>>

\* process_job, batch_chat: an agent.run returns or raises; after the last
\* message the job is completed
ChatReturns ==
    /\ worker.at = "awaiting"
    /\ LET job  == jobs_db[worker.job[1]]
           done == worker.done + 1
           progress == (done * 100) \div job.params.n
       IN  \E ok \in BOOLEAN :
              IF ~ok
              THEN /\ jobs_db' = [jobs_db EXCEPT ![job.job_id] =
                                     Failed(job, "agent", utcnow)]
                   /\ worker' = NextGet(job_queue)
                   /\ utcnow' = utcnow + 1
              ELSE IF done = job.params.n
              THEN /\ jobs_db' = [jobs_db EXCEPT ![job.job_id] =
                                     Completed(job, [responses |-> done],
                                               utcnow)]
                   /\ worker' = NextGet(job_queue)
                   /\ utcnow' = utcnow + 1
              ELSE /\ jobs_db' = [jobs_db EXCEPT ![job.job_id].progress =
                                     progress]
                   /\ worker' = [worker EXCEPT !.done = done]
                   /\ UNCHANGED utcnow
    /\ UNCHANGED <<job_queue, executed, collections, ragVars, ingestVars,
                   cliVars, procs, router>>

InitJobs ==
    /\ dir = <<>>
    /\ registry = EmptyRegistry
    /\ backing = NoBackingFile
    /\ collections = <<>>
    /\ pc = "idle"
    /\ queue = <<>>
    /\ cur = NoFile
    /\ nreg = 0
    /\ all_new_chunks = <<>>
    /\ report = NoReport
    /\ runs = 0 /\ edits = 0 /\ faults = 0
    /\ submitted = <<>>
    /\ runSubmitted = <<>>
    /\ passChunks = {}
    /\ chunked = <<>>
    /\ prev = NoPrev
    /\ seenEmpty = {}
    /\ rag_systems = {}
    /\ result = NoResult
    /\ cli = NoCli
    /\ procs = NoProcs
    /\ NoJobs
    /\ router = NoRoute

NextJobs ==
    \/ submit_job
    \/ cancel_job
    \/ ProcessBatchEmbed
    \/ ProcessBatchRagIngest
    \/ ProcessAnalyzeDocument
    \/ ProcessUnknown
    \/ ProcessBatchChat
    \/ ChatReturns

SpecJobs == InitJobs /\ [][NextJobs]_vars

\* the event loop runs a worker that can run, and every agent.run that is
\* awaited returns or raises in the end
SpecJobsFair ==
    /\ SpecJobs
    /\ WF_vars(ProcessBatchEmbed)
    /\ WF_vars(ProcessBatchRagIngest)
    /\ WF_vars(ProcessAnalyzeDocument)
    /\ WF_vars(ProcessUnknown)
    /\ WF_vars(ProcessBatchChat)
    /\ WF_vars(ChatReturns)


\* ------------------------------------------------- the model router ---
\* model_router.py. A query is a sequence of characters. The patterns are
\* the ones of _COMPLEX_PATTERNS and _SIMPLE_PATTERNS that a query of ASCII
\* characters can match: an alternative that holds an accented or an Arabic
\* letter matches no such query and is left out.
SHORT_QUERY == 80      \* route: len(q) < 80
LONG_QUERY  == 150     \* _COMPLEX_PATTERNS: .{150,}

UpperCase == <<"A", "B", "C", "D", "E", "F", "G", "H", "I", "J", "K", "L", "M",
               "N", "O", "P", "Q", "R", "S", "T", "U", "V", "W", "X", "Y", "Z">>
LowerCase == <<"a", "b", "c", "d", "e", "f", "g", "h", "i", "j", "k", "l", "m",
               "n", "o", "p", "q", "r", "s", "t", "u", "v", "w", "x", "y", "z">>
Digits    == {"0", "1", "2", "3", "4", "5", "6", "7", "8", "9"}
Whitespace == {" ", "\t", "\n"}

\* re.IGNORECASE on ASCII: letters are compared in lower case
lower(c) ==
    IF \E i \in 1..Len(UpperCase) : UpperCase[i] = c
    THEN LowerCase[CHOOSE i \in 1..Len(UpperCase) : UpperCase[i] = c]
    ELSE c

\* a character \w matches
WordChar(c) == lower(c) \in Range(LowerCase) \cup Digits \cup {"_"}

\* str.strip()
RECURSIVE lstrip(_)
lstrip(text) ==
    IF text # <<>> /\ Head(text) \in Whitespace THEN lstrip(Tail(text))
    ELSE text

RECURSIVE rstrip(_)
rstrip(text) ==
    IF text # <<>> /\ text[Len(text)] \in Whitespace
    THEN rstrip(SubSeq(text, 1, Len(text) - 1))
    ELSE text

strip(text) == lstrip(rstrip(text))

\* the pattern, a sequence of literal characters in which "." stands for
\* any character but a newline, matches the text at position i
MatchesAt(pattern, text, i) ==
    /\ i + Len(pattern) - 1 <= Len(text)
    /\ \A k \in 1..Len(pattern) :
          IF pattern[k] = "." THEN text[i + k - 1] # "\n"
          ELSE lower(text[i + k - 1]) = pattern[k]

\* re.search(pattern, text, re.IGNORECASE) for an unanchored pattern
re_search(pattern, text) ==
    \E i \in 1..Len(text) : MatchesAt(pattern, text, i)

\* the alternatives of _COMPLEX_PATTERNS, but for .{150,}
COMPLEX_PATTERNS ==
    {
     <<"a", "n", "a", "l", "y", "s">>,
     <<"c", "o", "m", "p", "a", "r">>,
     <<"e", "x", "p", "l", "i", "q", "u">>,
     <<"a", "n", "a", "l", "y", "z">>,
     <<"e", "x", "p", "l", "a", "i", "n">>,
     <<"d", "e", "t", "a", "i", "l">>,
     <<"e", "v", "a", "l", "u", "a", "t">>,
     <<"s", "t", "r", "a", "t", "e", "g">>,
     <<"r", "e", "v", "i", "e", "w">>,
     <<"c", "o", "n", "t", "r", "a", "t">>,
     <<"j", "u", "r", "i", "d", "i", "q", "u", "e">>,
     <<"f", "i", "s", "c", "a", "l">>,
     <<"c", "o", "m", "p", "t", "a", "b">>,
     <<"f", "i", "n", "a", "n", "c">>,
     <<"b", "u", "d", "g", "e", "t">>,
     <<"a", "u", "d", "i", "t">>,
     <<"c", "o", "n", "t", "r", "a", "c", "t">>,
     <<"l", "e", "g", "a", "l">>,
     <<"t", "a", "x">>,
     <<"a", "c", "c", "o", "u", "n", "t", "i", "n", "g">>,
     <<"c", "o", "m", "p", "l", "i", "a", "n", "c", "e">>,
     <<"i", "n", "v", "o", "i", "c", "e">>,
     <<"c", "l", "a", "u", "s", "e">>,
     <<"c", "o", "d", "e">>,
     <<"s", "c", "r", "i", "p", "t">>,
     <<"f", "o", "n", "c", "t", "i", "o", "n">>,
     <<"c", "l", "a", "s", "s">>,
     <<"d", "e", "b", "u", "g">>,
     <<"e", "r", "r", "e", "u", "r">>,
     <<"e", "x", "c", "e", "p", "t", "i", "o", "n">>,
     <<"a", "p", "i">>,
     <<"s", "q", "l">>,
     <<"f", "u", "n", "c", "t", "i", "o", "n">>,
     <<"e", "r", "r", "o", "r">>,
     <<"i", "m", "p", "l", "e", "m", "e", "n", "t">>,
     <<"r", "e", "f", "a", "c", "t", "o", "r">>,
     <<"a", "l", "g", "o", "r", "i", "t", "h", "m">>,
     <<"q", "u", "e", "r", "y">>,
     <<"p", "o", "u", "r", "q", "u", "o", "i">>,
     <<"c", "o", "m", "m", "e", "n", "t", " ", "e", "s", "t", "-", "c", "e">>,
     <<"q", "u", "e", "l", "l", "e", "s", " ", "s", "o", "n", "t", " ", "l",
       "e", "s", " ", "r", "a", "i", "s", "o", "n", "s">>,
     <<"w", "h", "y">>,
     <<"h", "o", "w", " ", "d", "o", "e", "s">>,
     <<"w", "h", "a", "t", " ", "a", "r", "e", " ", "t", "h", "e", " ", "r",
       "e", "a", "s", "o", "n", "s">>,
     <<"w", "h", "a", "t", " ", "i", "s", " ", "t", "h", "e", " ", "d", "i",
       "f", "f", "e", "r", "e", "n", "c", "e">>
    }

\* the alternatives of the _SIMPLE_PATTERNS of the form ^(...)\b
SIMPLE_WORDS ==
    {
     <<"b", "o", "n", "j", "o", "u", "r">>,
     <<"s", "a", "l", "u", "t">>,
     <<"m", "e", "r", "c", "i">>,
     <<"o", "k">>,
     <<"o", "u", "i">>,
     <<"n", "o", "n">>,
     <<"b", "o", "n", "s", "o", "i", "r">>,
     <<"a", "u", " ", "r", "e", "v", "o", "i", "r">>,
     <<"s", "a", "l", "a", "m">>,
     <<"h", "e", "l", "l", "o">>,
     <<"h", "i">>,
     <<"t", "h", "a", "n", "k", "s">>,
     <<"t", "h", "a", "n", "k", " ", "y", "o", "u">>,
     <<"y", "e", "s">>,
     <<"n", "o">>,
     <<"o", "k", "a", "y">>,
     <<"b", "y", "e">>,
     <<"g", "o", "o", "d", " ", "m", "o", "r", "n", "i", "n", "g">>
    }

\* the alternatives of the _SIMPLE_PATTERNS of the form ^(...)\s.{0,n}: the
\* tail .{0,n} matches whatever follows, the empty string included
SIMPLE_OPENINGS ==
    {
     <<"q", "u", ".", "e", "s", "t", ".", "c", "e", " ", "q", "u", "e">>,
     <<"c", ".", "e", "s", "t", " ", "q", "u", "o", "i">>,
     <<"c", ".", "e", "s", "t", " ", "q", "u", "i">>,
     <<"q", "u", "i", " ", "e", "s", "t">>,
     <<"q", "u", "a", "n", "d">>,
     <<"o", "u">>,
     <<"w", "h", "a", "t", " ", "i", "s">>,
     <<"w", "h", "o", " ", "i", "s">>,
     <<"w", "h", "e", "r", "e", " ", "i", "s">>,
     <<"w", "h", "e", "n", " ", "i", "s">>,
     <<"h", "o", "w", " ", "m", "a", "n", "y">>,
     <<"i", "s", " ", "i", "t">>,
     <<"l", "i", "s", "t", "e">>,
     <<"d", "o", "n", "n", "e", ".", "m", "o", "i">>,
     <<"e", "n", "u", "m", "e", "r", "e">>,
     <<"c", "i", "t", "e">>,
     <<"l", "i", "s", "t">>,
     <<"g", "i", "v", "e", " ", "m", "e">>,
     <<"s", "h", "o", "w", " ", "m", "e">>,
     <<"n", "a", "m", "e">>
    }


\* route, first loop: some complex pattern is found in q
MatchesComplex(q) ==
    \/ \E pattern \in COMPLEX_PATTERNS : re_search(pattern, q)
    \/ Len(q) >= LONG_QUERY

\* route, second loop: some simple pattern is found in q
MatchesSimple(q) ==
    \/ \E w \in SIMPLE_WORDS :
          /\ MatchesAt(w, q, 1)
          /\ IF Len(q) > Len(w) THEN ~WordChar(q[Len(w) + 1]) ELSE TRUE
    \/ \E w \in SIMPLE_OPENINGS :
          /\ MatchesAt(w, q, 1)
          /\ Len(q) > Len(w)
          /\ q[Len(w) + 1] \in Whitespace

\* route: the label it returns
route(text) ==
    LET q == strip(text)
    IN  IF MatchesComplex(q) THEN "14B"
        ELSE IF MatchesSimple(q) THEN "3B"
        ELSE IF Len(q) < SHORT_QUERY THEN "3B"
        ELSE "14B"

\* the queries of the self-test table, with the label each is expected to get

\* Bonjour, comment ca va ?  ->  3B
Test1 ==
    <<"B", "o", "n", "j", "o", "u", "r", ",", " ", "c", "o", "m", "m", "e",
      "n", "t", " ", "c", "a", " ", "v", "a", " ", "?">>

\* Hello how are you  ->  3B
Test2 ==
    <<"H", "e", "l", "l", "o", " ", "h", "o", "w", " ", "a", "r", "e", " ",
      "y", "o", "u">>

\* What is the capital of Morocco?  ->  3B
Test3 ==
    <<"W", "h", "a", "t", " ", "i", "s", " ", "t", "h", "e", " ", "c", "a",
      "p", "i", "t", "a", "l", " ", "o", "f", " ", "M", "o", "r", "o", "c",
      "c", "o", "?">>

\* Who is the CEO?  ->  3B
Test4 ==
    <<"W", "h", "o", " ", "i", "s", " ", "t", "h", "e", " ", "C", "E", "O",
      "?">>

\* merci  ->  3B
Test5 ==
    <<"m", "e", "r", "c", "i">>

\* yes  ->  3B
Test6 ==
    <<"y", "e", "s">>

\* Give me a list of cities  ->  3B
Test7 ==
    <<"G", "i", "v", "e", " ", "m", "e", " ", "a", " ", "l", "i", "s", "t",
      " ", "o", "f", " ", "c", "i", "t", "i", "e", "s">>

\* Analyse this contract and find abusive clauses  ->  14B
Test8 ==
    <<"A", "n", "a", "l", "y", "s", "e", " ", "t", "h", "i", "s", " ", "c",
      "o", "n", "t", "r", "a", "c", "t", " ", "a", "n", "d", " ", "f", "i",
      "n", "d", " ", "a", "b", "u", "s", "i", "v", "e", " ", "c", "l", "a",
      "u", "s", "e", "s">>

\* Write a Python function to parse CSV and return JSON  ->  14B
Test9 ==
    <<"W", "r", "i", "t", "e", " ", "a", " ", "P", "y", "t", "h", "o", "n",
      " ", "f", "u", "n", "c", "t", "i", "o", "n", " ", "t", "o", " ", "p",
      "a", "r", "s", "e", " ", "C", "S", "V", " ", "a", "n", "d", " ", "r",
      "e", "t", "u", "r", "n", " ", "J", "S", "O", "N">>

\* What is the difference between RAG and fine-tuning?  ->  14B
Test10 ==
    <<"W", "h", "a", "t", " ", "i", "s", " ", "t", "h", "e", " ", "d", "i",
      "f", "f", "e", "r", "e", "n", "c", "e", " ", "b", "e", "t", "w", "e",
      "e", "n", " ", "R", "A", "G", " ", "a", "n", "d", " ", "f", "i", "n",
      "e", "-", "t", "u", "n", "i", "n", "g", "?">>

\* Compare the offers from suppliers A, B and C  ->  14B
Test11 ==
    <<"C", "o", "m", "p", "a", "r", "e", " ", "t", "h", "e", " ", "o", "f",
      "f", "e", "r", "s", " ", "f", "r", "o", "m", " ", "s", "u", "p", "p",
      "l", "i", "e", "r", "s", " ", "A", ",", " ", "B", " ", "a", "n", "d",
      " ", "C">>

\* Explain in detail the data ingestion pipeline  ->  14B
Test12 ==
    <<"E", "x", "p", "l", "a", "i", "n", " ", "i", "n", " ", "d", "e", "t",
      "a", "i", "l", " ", "t", "h", "e", " ", "d", "a", "t", "a", " ", "i",
      "n", "g", "e", "s", "t", "i", "o", "n", " ", "p", "i", "p", "e", "l",
      "i", "n", "e">>

\* Why is the API returning a 500 error?  ->  14B
Test13 ==
    <<"W", "h", "y", " ", "i", "s", " ", "t", "h", "e", " ", "A", "P", "I",
      " ", "r", "e", "t", "u", "r", "n", "i", "n", "g", " ", "a", " ", "5",
      "0", "0", " ", "e", "r", "r", "o", "r", "?">>

\* Review this SQL query for performance issues  ->  14B
Test14 ==
    <<"R", "e", "v", "i", "e", "w", " ", "t", "h", "i", "s", " ", "S", "Q",
      "L", " ", "q", "u", "e", "r", "y", " ", "f", "o", "r", " ", "p", "e",
      "r", "f", "o", "r", "m", "a", "n", "c", "e", " ", "i", "s", "s", "u",
      "e", "s">>

\* Debug this Python class and fix the memory leak  ->  14B
Test15 ==
    <<"D", "e", "b", "u", "g", " ", "t", "h", "i", "s", " ", "P", "y", "t",
      "h", "o", "n", " ", "c", "l", "a", "s", "s", " ", "a", "n", "d", " ",
      "f", "i", "x", " ", "t", "h", "e", " ", "m", "e", "m", "o", "r", "y",
      " ", "l", "e", "a", "k">>


tests ==
    <<[text |-> Test1, expected |-> "3B"],
      [text |-> Test2, expected |-> "3B"],
      [text |-> Test3, expected |-> "3B"],
      [text |-> Test4, expected |-> "3B"],
      [text |-> Test5, expected |-> "3B"],
      [text |-> Test6, expected |-> "3B"],
      [text |-> Test7, expected |-> "3B"],
      [text |-> Test8, expected |-> "14B"],
      [text |-> Test9, expected |-> "14B"],
      [text |-> Test10, expected |-> "14B"],
      [text |-> Test11, expected |-> "14B"],
      [text |-> Test12, expected |-> "14B"],
      [text |-> Test13, expected |-> "14B"],
      [text |-> Test14, expected |-> "14B"],
      [text |-> Test15, expected |-> "14B"]>>


\* other queries: an opening, a blank and a remainder, as typed or with
\* blanks around; and long queries, made of a phrase said over and over

Openings ==
    {
     <<"W", "h", "a", "t", " ", "i", "s">>,
     <<"W", "h", "o", " ", "i", "s">>,
     <<"H", "e", "l", "l", "o">>,
     <<"H", "i", ",">>,
     <<"G", "i", "v", "e", " ", "m", "e">>,
     <<"T", "h", "a", "n", "k", "s">>,
     <<"W", "h", "e", "r", "e", " ", "i", "s">>,
     <<"T", "e", "l", "l", " ", "m", "e">>,
     <<"N", "a", "m", "e">>,
     <<"P", "l", "e", "a", "s", "e">>
    }

Remainders ==
    {
     <<"t", "h", "e", " ", "c", "a", "p", "i", "t", "a", "l", " ", "o", "f",
       " ", "M", "o", "r", "o", "c", "c", "o", "?">>,
     <<"t", "h", "e", " ", "C", "E", "O", "?">>,
     <<"a", " ", "l", "i", "s", "t", " ", "o", "f", " ", "c", "i", "t", "i",
       "e", "s">>,
     <<"t", "h", "e", " ", "w", "e", "a", "t", "h", "e", "r", " ", "t", "o",
       "d", "a", "y">>,
     <<"t", "h", "e", " ", "h", "e", "a", "d", "q", "u", "a", "r", "t", "e",
       "r", "s", " ", "o", "f", " ", "t", "h", "e", " ", "f", "i", "r", "m",
       "?">>,
     <<"t", "h", "e", " ", "a", "p", "i", " ", "k", "e", "y">>,
     <<"o", "u", "r", " ", "t", "a", "x", " ", "r", "a", "t", "e", "?">>,
     <<"m", "o", "r", "e">>
    }

Phrase ==
    <<"t", "e", "l", "l", " ", "m", "e", " ", "m", "o", "r", "e", " ">>


RECURSIVE Repeat(_, _)
Repeat(text, n) == IF n = 0 THEN <<>> ELSE text \o Repeat(text, n - 1)

RouterQueries ==
    {tests[k].text : k \in 1..Len(tests)}
       \cup {pad \o opening \o <<" ">> \o remainder \o pad :
                pad \in {<<>>, <<" ", " ">>}, opening \in Openings,
                remainder \in Remainders}
       \cup {opening \o <<" ">> \o Repeat(Phrase, n) :
                opening \in Openings, n \in {6, 7, 12}}
       \cup {Repeat(Phrase, n) : n \in {6, 7, 11, 12}}

\* get_model_for_chat / route on a query
Route ==
    /\ router.label = "none"
    /\ router.text # <<>>
    /\ router' = [router EXCEPT !.label = route(router.text)]
    /\ UNCHANGED <<ingestVars, collections, ragVars, cliVars, procs, jobVars>>

\* the self-test: the label chosen for a query of the table is compared
\* with the expected one
SelfTest ==
    /\ router.label # "none"
    /\ router.expected # "none"
    /\ router.test = "none"
    /\ router' = [router EXCEPT !.test = IF router.label = router.expected
                                         THEN "PASS" ELSE "FAIL"]
    /\ UNCHANGED <<ingestVars, collections, ragVars, cliVars, procs, jobVars>>

InitRouter ==
    /\ dir = <<>>
    /\ registry = EmptyRegistry
    /\ backing = NoBackingFile
    /\ collections = <<>>
    /\ pc = "idle"
    /\ queue = <<>>
    /\ cur = NoFile
    /\ nreg = 0
    /\ all_new_chunks = <<>>
    /\ report = NoReport
    /\ runs = 0 /\ edits = 0 /\ faults = 0
    /\ submitted = <<>>
    /\ runSubmitted = <<>>
    /\ passChunks = {}
    /\ chunked = <<>>
    /\ prev = NoPrev
    /\ seenEmpty = {}
    /\ rag_systems = {}
    /\ result = NoResult
    /\ cli = NoCli
    /\ procs = NoProcs
    /\ NoJobs
    /\ \/ \E k \in 1..Len(tests) :
             router = [NoRoute EXCEPT !.text = tests[k].text,
                                      !.expected = tests[k].expected]
       \/ \E text \in RouterQueries :
             router = [NoRoute EXCEPT !.text = text]

NextRouter ==
    \/ Route
    \/ SelfTest

SpecRouter == InitRouter /\ [][NextRouter]_vars


\* ============================ claims: ingestion ==========================
\* documents of a sequence that carry a given text
WithText(docs, t) == SelectSeq(docs, LAMBDA d : d.text = t)

\* C1 — idempotent re-ingestion: when the previous run over this directory
\* completed (bulk store done, no per-file error) and neither the directory
\* nor the registry was touched since, the present run finds no new chunk,
\* hands nothing to add_documents, and known_files / known_chunks keep the
\* values they had when it started.
C1_IdempotentReingest ==
    (prev.ok /\ pc # "idle") =>
        /\ report.chunks_new = 0
        /\ all_new_chunks = <<>>
        /\ runSubmitted = <<>>
        /\ get_stats(registry).known_files = prev.known_files
        /\ get_stats(registry).known_chunks = prev.known_chunks

\* a second run has completed over a directory with a known file and a file
\* that is chunked again (a duplicate of another file), with chunks known
C1_Witness ==
    /\ pc = "done" /\ prev.ok /\ report.status = "complete"
    /\ prev.known_chunks >= 1
    /\ report.files_skipped >= 1
    /\ report.files_processed >= 1

\* C2 — cross-file chunk dedup: once a run is over, for every text that two
\* differently named files produced as a chunk (same registry, no clear
\* between), exactly one document with that text was handed to the vector
\* index, its source is the file processed first, and the chunk was not new
\* (was counted as skipped) in every later file of another name.
C2_CrossFileDedup ==
    pc = "done" =>
        \A t \in Texts :
            LET prod == SelectSeq(chunked, LAMBDA e : t \in e.texts)
                recs == WithText(submitted, t)
            IN  (\E i, j \in 1..Len(prod) : prod[i].file # prod[j].file) =>
                    /\ Len(recs) = 1
                    /\ recs[1].metadata.source = prod[1].file
                    /\ \A k \in 2..Len(prod) :
                          prod[k].file # prod[1].file => t \notin prod[k].new

\* C3 — is_file_known: known is true exactly when the registry holds the
\* file's base name with the hash of the file's present bytes, the second
\* component is that fresh hash, and the chunks of a modified file (name
\* registered, bytes changed) that the chunk set lacks are handed to the
\* vector index when the run reaches its bulk store.
C3_IsFileKnown ==
    /\ [][ProcessFile =>
            LET f == Head(queue)
            IN  /\ cur'.file = f
                /\ cur'.file_hash = hash_file(dir[f])
                /\ cur'.known = (/\ f \in DOMAIN registry.files
                                 /\ registry.files[f].hash = hash_file(dir[f]))
                /\ (~cur'.known /\ Malformed \notin Range(dir[f])) =>
                      {cur'.new_chunks[k].text : k \in 1..Len(cur'.new_chunks)}
                        = {t \in Range(dir[f]) : hash_text(t) \notin registry.chunks}
       ]_vars
    /\ [](pc \in {"stats", "done"} =>
            \A i \in 1..Len(chunked) :
                (chunked[i].run = runs /\ chunked[i].modified) =>
                    \A t \in chunked[i].new :
                        \E k \in 1..Len(runSubmitted) :
                            /\ runSubmitted[k].text = t
                            /\ runSubmitted[k].metadata.source = chunked[i].file)

\* a run completed in which a registered file with changed bytes brought a
\* chunk the chunk set lacked
C3_Witness ==
    /\ pc = "done" /\ report.status = "complete"
    /\ \E i \in 1..Len(chunked) :
          /\ chunked[i].run = runs /\ chunked[i].modified
          /\ chunked[i].new # {}
          /\ chunked[i].texts # chunked[i].new

\* C4 — bookkeeping follows storage, stated for the states in which
\* ingest_directory has returned or raised (a failed bulk store included):
\* whenever the registry makes is_chunk_known skip a text, the collection
\* holds a point with that text, and whenever it makes is_file_known skip a
\* file of the directory, the collection holds a point of that file version.
C4_BookkeepingFollowsStorage ==
    pc \in {"done", "failed"} =>
        /\ \A t \in Texts :
              is_chunk_known(registry, t) =>
                  \E k \in 1..Len(collections[Collection]) :
                      collections[Collection][k].text = t
        /\ \A f \in DOMAIN dir :
              is_file_known(registry, f, dir[f])[1] =>
                  \E k \in 1..Len(collections[Collection]) :
                      /\ collections[Collection][k].metadata.source = f
                      /\ collections[Collection][k].metadata.file_hash
                            = hash_file(dir[f])

\* C5 — chunk-hash durability: when register_file has returned, every hash
\* that register_chunk added earlier in the same pass is in the backing file.
C5_ChunkHashDurable ==
    (pc = "register_chunks" /\ nreg = 0) =>
        passChunks \subseteq Range(backing.chunks)

\* register_file has just returned for a later file of a pass in which
\* register_chunk had already added hashes
C5_Witness ==
    /\ pc = "register_chunks" /\ nreg = 0
    /\ passChunks # {}

\* C10 — per-file failure isolation: an exception of the extractor while a
\* file is processed is recorded in report.errors with the file's name and
\* changes nothing else (registry, backing file, batch, index and the other
\* report counts stay as they are, the loop goes on with the next file), and
\* when the loop is over every enumerated file is counted as processed, as
\* skipped or as an error, the errors being the files that raised.
C10_FailureIsolation ==
    /\ [][(ProcessFile /\ Malformed \in Range(dir[Head(queue)])) =>
            /\ report'.errors = Append(report.errors,
                                   [file |-> Head(queue), error |-> "extract"])
            /\ queue' = Tail(queue)
            /\ pc' = "loop"
            /\ UNCHANGED <<registry, backing, all_new_chunks, collections>>
            /\ report'.files_processed = report.files_processed
            /\ report'.files_skipped = report.files_skipped
            /\ report'.chunks_new = report.chunks_new
            /\ report'.chunks_skipped = report.chunks_skipped
       ]_vars
    /\ [](pc \in {"stats", "done"} =>
            /\ DOMAIN report.outcomes = DOMAIN dir
            /\ {report.errors[k].file : k \in 1..Len(report.errors)}
                  = {f \in DOMAIN dir : report.outcomes[f] = "error"}
            /\ \A f \in DOMAIN dir :
                  Malformed \in Range(dir[f]) => report.outcomes[f] = "error"
            /\ report.files_processed + report.files_skipped
                  = report.files_found - Len(report.errors))

\* a run completed although its first file raised, and the file after it
\* was processed and brought new chunks
C10_Witness ==
    /\ pc = "done" /\ report.status = "complete"
    /\ Len(report.errors) = 1 /\ report.errors[1].error = "extract"
    /\ report.files_processed = 1
    /\ report.chunks_new >= 1

\* ============================ claims: retrieval ==========================
\* the positions of the candidates that reach the threshold
Reaching(candidates, threshold) ==
    {i \in 1..Len(candidates) : candidates[i].score >= threshold}

\* the k-th smallest member of a set of positions
Nth(S, k) == CHOOSE i \in S : Cardinality({j \in S : j < i}) = k - 1

\* C6 — threshold gating: the accepted list of ProductionRAG.query, which
\* is the prompt's context and (when sources are included) the returned
\* sources, is the candidates whose score is >= relevance_threshold, each
\* once, in the candidates' order; a score equal to the threshold is accepted.
C6_ThresholdGating ==
    result.kind = "query" =>
        LET reach == Reaching(result.candidates, result.args.relevance_threshold)
        IN  /\ Len(result.accepted) = Cardinality(reach)
            /\ \A k \in 1..Len(result.accepted) :
                  result.accepted[k] = result.candidates[Nth(reach, k)]
            /\ result.context = result.accepted
            /\ result.has_sources =>
                  /\ Len(result.sources) = Len(result.accepted)
                  /\ \A k \in 1..Len(result.sources) :
                        /\ result.sources[k].text = result.accepted[k].text
                        /\ result.sources[k].relevance_score
                              = result.accepted[k].score

\* the scenario of scores 0.83, 0.52, 0.30 under threshold 0.45: the first
\* two results are accepted, in that order
C6_Witness ==
    /\ result.kind = "query"
    /\ result.args.relevance_threshold = RELEVANCE_THRESHOLD
    /\ [k \in 1..Len(result.candidates) |-> result.candidates[k].score]
          = <<83, 52, 30>>
    /\ [k \in 1..Len(result.sources) |-> result.sources[k].relevance_score]
          = <<83, 52>>

\* C7 — grounding signal: every result of ProductionRAG.query carries the
\* key used_knowledge_base, whatever the arguments, answered by the
\* generator, and the flag is true exactly when the accepted list is not empty.
C7_GroundingSignal ==
    result.kind = "query" =>
        /\ result.answer = "generated"
        /\ result.has_flag
        /\ result.used_knowledge_base = (Len(result.accepted) > 0)

\* C8 — the /rag/query endpoint of api.py: nothing scoring under the
\* relevance threshold 0.45 is in the prompt context or in the sources, and
\* when no relevant chunk is found the generator still words the answer.
C8_EndpointFilters ==
    result.kind = "query_rag" =>
        /\ \A k \in 1..Len(result.context) :
              result.context[k].score >= RELEVANCE_THRESHOLD
        /\ \A k \in 1..Len(result.sources) :
              result.sources[k].relevance_score >= RELEVANCE_THRESHOLD
        /\ result.answer = "generated"

\* a retrieval request is served
Retrieval == Query \/ query_rag \/ rag_query

\* C9 as claimed — retrieval is read-only: serving a retrieval request
\* leaves the registry, its backing file, the set of collections and the
\* points stored in them unchanged.
C9_RetrievalReadOnly ==
    [][Retrieval => UNCHANGED <<registry, backing, collections>>]_vars

\* C9 as amended — serving a retrieval request leaves the registry, its
\* backing file and the points of every existing collection unchanged, so
\* every search returns the candidates it returned before; the one change it
\* can make to the index is that get_rag creates the requested collection,
\* empty, when no collection of that name exists yet.
C9_RetrievalKeepsPoints ==
    [][Retrieval =>
         /\ UNCHANGED <<registry, backing>>
         /\ \A c \in DOMAIN collections :
               /\ c \in DOMAIN collections'
               /\ collections'[c] = collections[c]
               /\ \A q \in Questions, k \in 1..MaxPoints :
                     search(collections'[c], q, k) = search(collections[c], q, k)
         /\ \A c \in DOMAIN collections' \ DOMAIN collections :
               /\ collections'[c] = <<>>
               /\ DOMAIN collections' = DOMAIN collections \cup {c}
      ]_vars

\* /api/rag/query has been served from a collection that holds points, by a
\* backend that had built the ProductionRAG of both collections on request
C9_Witness ==
    /\ result.kind = "rag_query"
    /\ Len(result.candidates) >= 2
    /\ "default" \in rag_systems
    /\ "enterprise_kb" \in rag_systems

\* ====================== claims: registry and command line ================
\* C11 — registry load never crashes: constructing the DuplicateRegistry
\* when the backing file is missing, or exists but is corrupt (not parseable,
\* or not of the files/chunks/stats shape), never raises and yields the
\* empty registry, and the command goes on without raising (statistics are
\* printed, ingest_directory returns its report).
C11_LoadNeverCrashes ==
    /\ cli.at # "raised"
    /\ (cli.at = "constructed" /\ ~(backing.exists /\ IsRegistryFile(backing)))
          => registry = EmptyRegistry
    /\ cli.at = "ingest" => pc # "failed"

\* C20 — --clear-registry only resets the registry: once an invocation with
\* --clear-registry has cleared the registry, that invocation processes no
\* file, adds nothing to the vector index and registers nothing.
C20_ClearRegistryOnly ==
    (cli.clear_registry /\ cli.at \in {"dispatch", "exit", "ingest"}) =>
        /\ report.files_processed = 0
        /\ registry = EmptyRegistry
        /\ backing = SavedForm(EmptyRegistry)
        /\ \A c \in DOMAIN collections : collections[c] = <<>>

\* C12 — persist failures are not swallowed: a failed write of the backing
\* file inside register_file is reported (an entry of report.errors), and
\* the run does not go on using, and later persisting, the state whose write
\* failed: when the run has returned, a file whose register_file write
\* failed is known neither to the registry in memory nor to the backing file.
C12_PersistFailureNotKept ==
    pc = "done" =>
        \A k \in 1..Len(report.errors) :
            report.errors[k].error = "save" =>
                LET f == report.errors[k].file
                IN  /\ ~is_file_known(registry, f, dir[f])[1]
                    /\ ~is_file_known(Load(backing), f, dir[f])[1]

\* the two running counters of a registry
Counters(reg) == <<reg.stats.total_ingested, reg.stats.total_skipped>>

\* C13 — running statistics: a run that completes adds its chunks_new to
\* total_ingested and its chunks_skipped to total_skipped, once; and a
\* step that is not clear() (nor the loading of the backing file by a new
\* process) never decreases a counter.  So after any sequence of completed
\* runs since the last clear() the counters are the sums over the runs.
C13_RunningStatistics ==
    [][/\ UpdateStats =>
             Counters(registry')
                = <<registry.stats.total_ingested + report.chunks_new,
                    registry.stats.total_skipped + report.chunks_skipped>>
       /\ ~(UpdateStats \/ UpdateStatsSaveFails) =>
             \/ Counters(registry') = Counters(registry)
             \/ Clear \/ Restart \/ Crash
      ]_vars

\* C14 — empty documents are skipped without trace: processing a file whose
\* extracted text is empty leaves the registry, its backing file, the vector
\* index and the batch unchanged, adds no new chunk and no error to the
\* report, and counts the file as skipped; no registry entry ever carries
\* the hash of an empty file; so when a later run finds non-empty content
\* under a name that was seen empty and has no entry, the file is not
\* skipped by is_file_known and its chunks that are not known yet are new.
C14_EmptyDocumentNoTrace ==
    /\ [][(ProcessFile /\ dir[Head(queue)] = <<>>) =>
             /\ UNCHANGED <<registry, backing, collections, all_new_chunks>>
             /\ report'.chunks_new = report.chunks_new
             /\ report'.errors = report.errors
             /\ report'.files_processed = report.files_processed
             /\ report'.outcomes[Head(queue)] = "skipped"
         ]_vars
    /\ [](\A f \in DOMAIN registry.files :
             registry.files[f].hash # hash_file(<<>>))
    /\ [][(/\ ProcessFile
           /\ Head(queue) \in seenEmpty
           /\ Head(queue) \notin DOMAIN registry.files
           /\ dir[Head(queue)] \notin {<<>>, <<Malformed>>}) =>
             /\ ~cur'.known
             /\ cur'.outcome \in {"pending", "processed"}
             /\ {cur'.new_chunks[k].text : k \in 1..Len(cur'.new_chunks)}
                   = {t \in Range(dir[Head(queue)]) : ~is_chunk_known(registry, t)}
         ]_vars

\* a.txt was empty in the first run; with one chunk in the second run it is
\* processed and its chunk is stored
C14_Witness ==
    /\ pc = "done" /\ runs = 2
    /\ "a.txt" \in seenEmpty
    /\ "a.txt" \in DOMAIN dir /\ dir["a.txt"] = <<1>>
    /\ report.outcomes["a.txt"] = "processed"
    /\ report.chunks_new = 1
    /\ \E k \in 1..Len(collections[Collection]) :
          collections[Collection][k].metadata.source = "a.txt"

\* the run in hand started from a registry without files and chunks, on an
\* index that already held records, and its loop and bulk store are over
ReingestedFromEmpty ==
    /\ pc \in {"stats", "done"}
    /\ report.status \in {"running", "complete"}
    /\ prev.known_files = 0 /\ prev.known_chunks = 0
    /\ Len(collections[Collection]) > Len(runSubmitted)

\* the files of the directory that have text and can be read
Readable == {f \in DOMAIN dir : dir[f] \notin {<<>>, <<Malformed>>}}

\* the files this run chunked, in the order it processed them
ThisRun == SelectSeq(chunked, LAMBDA e : e.run = runs)

\* after clear() nothing is known
NothingKnown(reg) ==
    /\ \A f \in Names, b \in Files : ~is_file_known(reg, f, b)[1]
    /\ \A t \in Texts : ~is_chunk_known(reg, t)

\* C15 as claimed — clear() then re-ingest: after clear() no file and no
\* chunk text is known, so the next ingest_directory over a previously
\* ingested directory skips no non-empty file as known and reports all of
\* their chunks as new.
C15_ClearThenReingestAllNew ==
    ReingestedFromEmpty =>
        /\ \A f \in Readable : report.outcomes[f] \in {"processed", "error"}
        /\ report.chunks_new
              = Cardinality({<<f, i>> \in Readable \X (1..MaxChunks) :
                                /\ report.outcomes[f] = "processed"
                                /\ i <= Len(dir[f])})

\* C15 as amended — after clear() no file and no chunk text is known, so
\* the next ingest_directory over a previously ingested directory skips no
\* non-empty file as known; it reports as new the chunks whose text did not
\* occur in a file processed earlier in the same run, and skips the others
\* as duplicates.
C15_ClearThenReingest ==
    /\ [][Clear => NothingKnown(registry')]_vars
    /\ [](ReingestedFromEmpty =>
            /\ \A f \in Readable : report.outcomes[f] \in {"processed", "error"}
            /\ \A k \in 1..Len(ThisRun) :
                  ThisRun[k].new
                     = ThisRun[k].texts
                          \ UNION {ThisRun[j].texts : j \in 1..(k - 1)}
            /\ report.chunks_new
                  = Cardinality({<<k, i>> \in (1..Len(ThisRun)) \X (1..MaxChunks) :
                                    /\ i <= Len(dir[ThisRun[k].file])
                                    /\ dir[ThisRun[k].file][i] \in ThisRun[k].new})
            /\ report.chunks_new + report.chunks_skipped
                  = Cardinality({<<k, i>> \in (1..Len(ThisRun)) \X (1..MaxChunks) :
                                    i <= Len(dir[ThisRun[k].file])}))

\* two files with the same chunk were ingested, the registry was cleared,
\* and the next run processed both again: one chunk new, one skipped
C15_Witness ==
    /\ ReingestedFromEmpty
    /\ pc = "done"
    /\ Len(ThisRun) = 2
    /\ report.files_processed = 2
    /\ report.chunks_new = 1 /\ report.chunks_skipped = 1
    /\ Len(collections[Collection]) = 2

\* C16 — clear() frame: clear() resets the files, the chunk set and both
\* counters, in memory and in the backing file (a new process loads the
\* empty registry), and leaves the vector index untouched; and no step of
\* the ingestion side removes or changes a stored record, so every record
\* stored before clear() is still stored afterwards and re-ingestion adds
\* records next to the old ones.
C16_ClearFrame ==
    /\ [][Clear =>
             /\ registry' = EmptyRegistry
             /\ backing' = SavedForm(EmptyRegistry)
             /\ Load(backing') = EmptyRegistry
             /\ UNCHANGED collections
         ]_vars
    /\ [][/\ Len(collections'[Collection]) >= Len(collections[Collection])
          /\ \A k \in 1..Len(collections[Collection]) :
                collections'[Collection][k] = collections[Collection][k]
         ]_vars

\* a.txt was ingested, the registry cleared and a.txt ingested again: the
\* collection holds its chunk twice
C16_Witness ==
    /\ pc = "done"
    /\ Len(collections[Collection]) = 2
    /\ collections[Collection][1].text = collections[Collection][2].text
    /\ collections[Collection][1].metadata.source = "a.txt"
    /\ collections[Collection][2].metadata.source = "a.txt"
    /\ collections[Collection][1].metadata.chunk_index
          = collections[Collection][2].metadata.chunk_index
    /\ get_stats(registry).known_chunks = 1


\* ============================ claims: concurrency ========================
\* every started process has ended, and the backing file lacks a file entry
\* or a chunk hash that one of them registered
LostUpdate ==
    /\ \E p \in Procs : procs[p].pc = "done"
    /\ \A p \in Procs : ~Active(p)
    /\ backing.exists
    /\ \E p \in Procs :
          \/ \E f \in procs[p].files : f \notin DOMAIN backing.files
          \/ \E h \in procs[p].chunks : h \notin Range(backing.chunks)

\* C17: the load-mutate-persist cycle of the registry is not atomic across
\* processes. Whenever the runs are over and the persisted registry lacks a
\* file entry or a chunk hash that a process registered, two processes held
\* their loaded copies at the same time; a process alone, or one that starts
\* after the other has ended, loses nothing. (That such an interleaving of
\* two processes exists is C17_Witness.)
C17_LostUpdateNeedsOverlap ==
    /\ LostUpdate => \E p \in Procs : procs[p].overlapped
    /\ \A p \in Procs :
          (procs[p].pc = "done" /\ \A q \in Procs \ {p} : procs[q].pc = "new")
             => /\ procs[p].files \subseteq DOMAIN Load(backing).files
                /\ procs[p].chunks \subseteq Load(backing).chunks

\* two processes have run to their end, each registered a file, and the
\* persisted registry lacks an entry or a hash one of them registered
C17_Witness ==
    /\ LostUpdate
    /\ \A p \in Procs : procs[p].pc = "done" /\ procs[p].files # {}


\* ================================ claims: jobs ===========================
\* the status changes the documented lifecycle allows, in one or more moves:
\* pending -> running -> completed | failed | cancelled, pending -> cancelled
Lifecycle ==
    {<<"pending", "running">>, <<"pending", "cancelled">>,
     <<"pending", "completed">>, <<"pending", "failed">>,
     <<"running", "completed">>, <<"running", "failed">>,
     <<"running", "cancelled">>}

\* C19: the status of a job only moves along pending -> running ->
\* completed | failed | cancelled (or pending -> cancelled): whatever
\* submit_job, cancel_job and the worker do in one step, a job whose status
\* changes moves forward along the lifecycle, so a job that is cancelled,
\* completed or failed never changes status again.
C19_JobLifecycle ==
    [][\A job_id \in DOMAIN jobs_db :
          jobs_db'[job_id].status # jobs_db[job_id].status
             => <<jobs_db[job_id].status, jobs_db'[job_id].status>>
                   \in Lifecycle]_vars


\* ======================== claims: the run and its report =================
\* the new chunks of the files the present run chunked without failure, one
\* file after the other in the order the run processed them
RECURSIVE Concat(_)
Concat(entries) ==
    IF entries = <<>> THEN <<>>
    ELSE Head(entries).docs \o Concat(Tail(entries))

ExpectedBatch == Concat(SelectSeq(chunked, LAMBDA e : e.run = runs))

\* the loop of the present run is over and its bulk store did not raise
LoopOver == pc \in {"stats", "done"} /\ report.status \in {"running", "complete"}

\* C21: single bulk store per directory run. Documents are handed to
\* add_documents only when the loop is over and nothing was handed over in
\* this run before; what is handed over is the new chunks of the files that
\* did not fail, file after file in processing order, as many as
\* report.chunks_new; the index grows by exactly these; and a run whose loop
\* is over has made the call exactly when it produced a new chunk.
C21_SingleBulkStore ==
    /\ [][Len(runSubmitted') > Len(runSubmitted) =>
             /\ runSubmitted = <<>>
             /\ pc = "loop" /\ queue = <<>>
             /\ runSubmitted' = ExpectedBatch
             /\ Len(runSubmitted') = report.chunks_new
         ]_vars
    /\ [][collections' # collections =>
             /\ Len(runSubmitted') > Len(runSubmitted)
             /\ collections' = [collections EXCEPT ![Collection] =
                                   add_documents(@, ExpectedBatch)]
         ]_vars
    /\ [](LoopOver =>
             /\ runSubmitted = ExpectedBatch
             /\ Len(runSubmitted) = report.chunks_new)

\* a run is over in which two files brought new chunks: the one call
\* carried the chunks of both files, those of the file processed first in
\* front, and the index holds exactly these
C21_Witness ==
    /\ pc = "done" /\ report.status = "complete"
    /\ Len(runSubmitted) >= 2
    /\ runSubmitted[1].metadata.source # runSubmitted[Len(runSubmitted)].metadata.source
    /\ runSubmitted[1].metadata.source = ThisRun[1].file
    /\ Len(collections[Collection]) = Len(runSubmitted)


\* the registry holds the name of the next file with the hash of its bytes
NextIsRegistered ==
    /\ pc = "loop" /\ queue # <<>>
    /\ Head(queue) \in DOMAIN registry.files
    /\ registry.files[Head(queue)].hash = hash_file(dir[Head(queue)])

\* C22: known-file fast path. Processing a file that the registry holds
\* under the hash of its present bytes returns no chunks and zero counts:
\* the file is not extracted or chunked (no chunking is recorded, no error),
\* nothing joins the batch or the index, the run counts it in files_skipped
\* and not in files_processed, the chunk counts stay, and the registry
\* (files, chunk set, counters) and its backing file are unchanged.
C22_KnownFileFastPath ==
    [][(ProcessFile /\ NextIsRegistered) =>
          /\ cur'.known /\ cur'.outcome = "skipped"
          /\ cur'.new_chunks = <<>> /\ cur'.total = 0 /\ cur'.skipped = 0
          /\ pc' = "loop" /\ queue' = Tail(queue)
          /\ UNCHANGED <<registry, backing, collections, all_new_chunks,
                         chunked, submitted, runSubmitted>>
          /\ report' = [report EXCEPT
                           !.files_skipped = @ + 1,
                           !.outcomes = (Head(queue) :> "skipped") @@ @]
      ]_vars

\* the run has just skipped a registered, unchanged file that has chunks
C22_Witness ==
    /\ pc = "loop"
    /\ cur.known /\ cur.outcome = "skipped"
    /\ cur.file \in DOMAIN registry.files
    /\ registry.files[cur.file].chunk_count >= 1
    /\ report.files_skipped >= 1


\* ============================ claims: the job queue ======================
\* the job was cancelled while pending: it is cancelled and never started
CancelledPending(job_id) ==
    /\ jobs_db[job_id].status = "cancelled"
    /\ jobs_db[job_id].started_at = None

\* C23: a cancelled pending job is never executed. Once cancel_job has
\* cancelled a job that was pending, no step of the worker touches the job:
\* its record stays as it is (status cancelled, result and error unset) and
\* its work is not carried out.
C23_CancelledPendingNeverRuns ==
    [][\A job_id \in DOMAIN jobs_db :
          CancelledPending(job_id) =>
             /\ jobs_db'[job_id] = jobs_db[job_id]
             /\ job_id \in executed' => job_id \in executed
      ]_vars


\* the jobs process_job has started and not ended
InProcess == {job_id \in DOMAIN jobs_db :
                 /\ jobs_db[job_id].started_at # None
                 /\ jobs_db[job_id].completed_at = None}

\* C24: job ordering. The worker processes the jobs one at a time in
\* submission order: of two jobs, the one submitted later is started only
\* after the processing of the earlier one has ended (completed_at set, and
\* not later than the other's started_at), whatever the priorities; and at
\* no time are two jobs in process.
C24_JobOrdering ==
    /\ \A a, b \in DOMAIN jobs_db :
          (jobs_db[a].created_at < jobs_db[b].created_at
              /\ jobs_db[b].started_at # None) =>
                /\ jobs_db[a].completed_at # None
                /\ jobs_db[a].completed_at[1] <= jobs_db[b].started_at[1]
    /\ Cardinality(InProcess) <= 1

\* a job of high priority was submitted while an earlier job of normal
\* priority was in process, and both have been processed
C24_Witness ==
    /\ Len(jobs_db) >= 2
    /\ jobs_db[1].priority = "normal" /\ jobs_db[2].priority = "high"
    /\ jobs_db[1].completed_at # None /\ jobs_db[2].completed_at # None
    /\ jobs_db[1].started_at[1] < jobs_db[2].created_at
    /\ jobs_db[2].created_at < jobs_db[1].completed_at[1]
    /\ jobs_db[2].status = "completed"


\* ============================ claims: model routing ======================
\* C25: model routing order. route returns 14B whenever the stripped query
\* matches a complex pattern; otherwise 3B if it matches a simple pattern
\* or is shorter than 80 characters; otherwise 14B. And under this rule
\* every query of the self-test table gets the label the table expects, a
\* short question that opens with a simple pattern ("What is ...") among
\* them: no entry of the self-test fails.
C25_RoutingOrder ==
    /\ router.label # "none" =>
          LET q == strip(router.text)
          IN  /\ MatchesComplex(q) => router.label = "14B"
              /\ (~MatchesComplex(q)
                    /\ (MatchesSimple(q) \/ Len(q) < SHORT_QUERY))
                    => router.label = "3B"
              /\ (~MatchesComplex(q) /\ ~MatchesSimple(q)
                    /\ Len(q) >= SHORT_QUERY) => router.label = "14B"
    /\ router.expected # "none" =>
          /\ router.label \in {"none", router.expected}
          /\ router.test # "FAIL"


\* ========================= claims: report and registry ===================
\* the files of the directory the report of the present run counts as kind
Counted(kind) == {f \in DOMAIN report.outcomes : report.outcomes[f] = kind}

\* how many chunks the files of a set were split into
RECURSIVE TotalChunks(_)
TotalChunks(files) ==
    IF files = {} THEN 0
    ELSE LET f == CHOOSE g \in files : TRUE
         IN  Len(dir[f]) + TotalChunks(files \ {f})

\* C26: report accounting. When a run that found at least one file has
\* returned its report, files_found = files_processed + files_skipped +
\* len(errors); every enumerated file is counted in exactly one of the
\* three; and chunks_new + chunks_skipped is the number of chunks the files
\* counted as processed were split into.
C26_ReportAccounting ==
    (pc = "done" /\ report.status = "complete") =>
        /\ report.files_found = Cardinality(DOMAIN dir)
        /\ report.files_found = report.files_processed + report.files_skipped
                                   + Len(report.errors)
        /\ DOMAIN report.outcomes = DOMAIN dir
        /\ report.files_processed = Cardinality(Counted("processed"))
        /\ report.files_skipped = Cardinality(Counted("skipped"))
        /\ Len(report.errors) = Cardinality(Counted("error"))
        /\ {report.errors[k].file : k \in 1..Len(report.errors)}
              = Counted("error")
        /\ report.chunks_new + report.chunks_skipped
              = TotalChunks(Counted("processed"))

\* a run has returned that skipped one file as known and processed another,
\* of whose two chunks one was new and one a duplicate
C26_Witness ==
    /\ pc = "done" /\ report.status = "complete"
    /\ report.files_found = 2
    /\ report.files_skipped = 1 /\ report.files_processed = 1
    /\ report.chunks_new = 1 /\ report.chunks_skipped = 1


\* C27: processed files become known. When a run has returned its report,
\* every file it counted as processed (non-empty, no error) is recorded in
\* the registry, in memory and in the backing file, under the hash of its
\* present bytes, so that is_file_known reports it as known to the next
\* run; also when all its chunks were duplicates of known chunks, and when
\* it is a modified version of a registered file.
C27_ProcessedBecomeKnown ==
    (pc = "done" /\ report.status = "complete") =>
        \A f \in Counted("processed") :
            /\ is_file_known(registry, f, dir[f])[1]
            /\ is_file_known(Load(backing), f, dir[f])[1]


\* C28: no duplicate text within a run. The batch a run hands to the vector
\* index never holds two documents of the same text, also when a text
\* occurs more than once inside one file; and when the run has returned,
\* known_chunks has grown by exactly the number of documents handed over.
C28_NoDuplicateInBatch ==
    /\ \A i, j \in 1..Len(all_new_chunks) :
          all_new_chunks[i].text = all_new_chunks[j].text => i = j
    /\ \A i, j \in 1..Len(runSubmitted) :
          runSubmitted[i].text = runSubmitted[j].text => i = j
    /\ (pc = "done" /\ report.status = "complete") =>
          get_stats(registry).known_chunks
             = prev.known_chunks + Len(runSubmitted)


\* C29: crash consistency of the persisted registry. Whatever happened
\* before (a crash or an exception at any point of a run), a process that
\* starts from the backing file never sees a file marked as ingested whose
\* chunks the chunk set does not know: when the persisted registry holds an
\* entry for a file under the hash of its bytes, it holds the hash of every
\* chunk of that file, those that were new in the pass that registered it
\* included.
C29_CrashConsistency ==
    (Resting /\ registry = Load(backing)) =>
        \A f \in DOMAIN dir :
            is_file_known(Load(backing), f, dir[f])[1] =>
                \A t \in Range(dir[f]) : is_chunk_known(Load(backing), t)


\* ========================= claims: the job record ========================
\* what get_job can read of a job is consistent
ConsistentJob(job) ==
    /\ job.result # None => job.status = "completed"
    /\ job.error # None => job.status = "failed"
    /\ job.completed_at # None => job.status \in {"completed", "failed"}
    /\ job.status = "completed" => job.progress = 100
    /\ (job.job_type = "no_such_type" /\ job.completed_at # None) =>
          /\ job.status = "failed"
          /\ job.error # None
          /\ job.result = None

\* C30: job record consistency and completion. In every state, result is
\* set only if the status is completed, error only if it is failed,
\* completed_at only if it is completed or failed, and a completed job has
\* progress 100; a job of an unknown type, which submit_job accepts, ends
\* failed with an error and no result; and, every job body ending, every
\* submitted job is in the end completed or failed, unless it is cancelled.
C30_JobRecord ==
    /\ [](\A job_id \in DOMAIN jobs_db : ConsistentJob(jobs_db[job_id]))
    /\ \A job_id \in 1..MaxJobs :
          (job_id \in DOMAIN jobs_db)
             ~> (job_id \in DOMAIN jobs_db
                    /\ jobs_db[job_id].status
                           \in {"completed", "failed", "cancelled"})
    /\ \A job_id \in 1..MaxJobs :
          (job_id \in DOMAIN jobs_db
              /\ jobs_db[job_id].job_type = "no_such_type")
             ~> (job_id \in DOMAIN jobs_db
                    /\ jobs_db[job_id].status \in {"failed", "cancelled"})

\* a job of an unknown type has ended failed with its error and no result,
\* after a batch_chat job of two messages that ended completed
C30_Witness ==
    /\ Len(jobs_db) >= 2
    /\ jobs_db[1].job_type = "batch_chat" /\ jobs_db[1].params.n = 2
    /\ jobs_db[1].status = "completed" /\ jobs_db[1].progress = 100
    /\ jobs_db[1].result = Some([responses |-> 2])
    /\ jobs_db[2].job_type = "no_such_type"
    /\ jobs_db[2].created_at < jobs_db[1].completed_at[1]
    /\ jobs_db[2].status = "failed"
    /\ jobs_db[2].error = Some("ValueError") /\ jobs_db[2].result = None

====
